---------------------------- MODULE Spec2Model ----------------------------
(***************************************************************************)
(* Model of the geometry analysis core of dfmcheck: the STL mesh loader    *)
(* (parseSTL / parseAsciiSTL) and the manufacturability analyzer           *)
(* (analyzeWallThickness, analyzeOverhangs, analyzeGeometry).              *)
(*                                                                         *)
(* The repository holds several drafts of client/src/lib/geometry.ts.  The *)
(* variable `build` says which draft runs:                                 *)
(*   "geometry_1"  src/client/src/lib/geometry.ts lines 1-316              *)
(*   "geometry_2"  src/client/src/lib/geometry.ts lines 317-609            *)
(*   "part_020"    src/unnamed/part_020 (size check with 512-byte slack)   *)
(*   "part_021"    src/unnamed/part_021 (sampled overhang pass, area test) *)
(*                                                                         *)
(* Numbers.  Every float of the program is a fixed-point integer with two  *)
(* decimals: 100 stands for 1.0 (so a coordinate of 30 is 0.30 mm and a    *)
(* normal component of 100 is 1.0).  NaN stands for JavaScript's NaN and   *)
(* for the `undefined` read past the end of a typed array, which turns    *)
(* into NaN in every arithmetic the analyzer does.  Edge lengths are kept  *)
(* with four decimals (10000 = 1 mm), angles in tenths of a degree.        *)
(***************************************************************************)
EXTENDS Integers, Sequences, FiniteSets, TLC

VARIABLES
    build,        \* which draft of geometry.ts is running
    pc,           \* position of the analyzeGeometry call
    fileContent,  \* argument of analyzeGeometry
    process,      \* argument of analyzeGeometry
    data,         \* the ArrayBuffer handed to parseSTL
    now,          \* Date.now()
    startTime,    \* startTime of the function whose loop is running
    i,            \* loop variable of the running loop
    triangles,    \* Float32Array of vertex coordinates
    normals,      \* Float32Array of normals
    parsed,       \* parseSTL has returned its two buffers
    maxRead,      \* highest byte offset (exclusive) read through the DataView
    issues,       \* issues array of the running pass
    pass,         \* pass flag of the running pass
    issueAt,      \* buffer offset each entry of issues was measured at
    scanned,      \* buffer offset the running pass examined last, -1 before the first
    wallThickness,\* result of analyzeWallThickness, once returned
    wallAt,       \* buffer offsets of the wall-thickness issues
    overhangs,    \* result of analyzeOverhangs, once returned
    overAt,       \* buffer offsets of the overhang issues
    completedIn,  \* the 'completed in ... ms' each returned pass logged
    report,       \* what analyzeGeometry returned to its caller
    error,        \* what analyzeGeometry threw to its caller
    other,        \* a second analyzeGeometry call, when there is one: its variables
    insights,     \* the generateDesignInsights calls made: arguments and text
    tables,       \* the module-level tables MIN_WALL_THICKNESS, PROCESS_MATERIALS
    server,       \* the server: the analyses table and the requests answered
    client        \* the browser: advisory calls, the AI summary card, the home page

vars == <<build, pc, fileContent, process, data, now, startTime, i, triangles,
          normals, parsed, maxRead, issues, pass, issueAt, scanned, wallThickness, wallAt,
          overhangs, overAt, completedIn, report, error, other, insights, tables, server, client>>

-----------------------------------------------------------------------------
(* Bounds of the model *)

MaxTriangles == 2   \* triangle records in a binary blob
MaxLines == 3       \* lines in a text blob
MaxTicks == 1       \* clock jumps during one run
MaxInsights == 2    \* generateDesignInsights calls on one report
MaxRequests == 4    \* HTTP requests the server answers
MaxCalls == 2       \* calls of the advisory functions
MaxUploads == 2     \* files handed to FileUpload
MaxAnalyses == 2    \* runs of the analyze mutation
MaxRules == 2       \* lines of a designGuidelines text

-----------------------------------------------------------------------------
(* Program constants *)

MAX_OVERHANG_ANGLE == 45
MAX_ISSUES_PER_CATEGORY == 10
ANALYSIS_CHUNK_SIZE == 1000
MAX_PROCESSING_TIME == 30000
MAX_TRIANGLES == 5000
SAMPLING_RATE == 5
MAX_TRIANGLE_COUNT == 5000000
HEADER_BYTES == 84
RECORD_BYTES == 50
SIZE_SLACK == 512

Builds == {"geometry_1", "geometry_2", "part_020", "part_021"}

ProcessType == {"3d_printing", "injection_molding", "cnc_machining", "sheet_metal"}

\* the module-level tables as the module sets them: minimum wall per
\* process, two decimals (mm), and the materials of each process
ModuleTables ==
    [MIN_WALL_THICKNESS |->
        [p \in ProcessType |->
            CASE p = "3d_printing" -> 80
              [] p = "injection_molding" -> 100
              [] p = "cnc_machining" -> 120
              [] p = "sheet_metal" -> 50],
     PROCESS_MATERIALS |->
        [p \in ProcessType |->
            CASE p = "3d_printing" -> <<"PLA", "PETG", "ABS", "TPU", "Nylon">>
              [] p = "cnc_machining" ->
                    <<"Aluminum 6061", "Brass", "Steel 1018",
                      "Stainless Steel 304", "PEEK">>
              [] p = "injection_molding" ->
                    <<"ABS", "Polypropylene", "Polyethylene", "Polycarbonate",
                      "Nylon">>
              [] p = "sheet_metal" ->
                    <<"Aluminum", "Steel", "Stainless Steel", "Copper", "Brass">>]]

\* MIN_WALL_THICKNESS[process]
MIN_WALL_THICKNESS(p) == tables.MIN_WALL_THICKNESS[p]

\* JavaScript's NaN (and undefined, which arithmetic turns into NaN): a value
\* no coordinate, length or angle of the model takes
NaN == -99999999

\* the server before its first request: an empty analyses table, whose
\* serial id starts at 1, and nothing answered
NoRequests == [analyses |-> << >>, log |-> << >>]

\* the analyze mutation before its first run
NoMutation ==
    [status |-> "idle", pc |-> "none", runs |-> 0, file |-> << >>,
     process |-> "", report |-> << >>, request |-> << >>, data |-> << >>,
     error |-> "none"]

\* the Home component as mounted: its useState values, the route, the
\* toasts shown, the file reads handleFileSelected awaits, the files
\* handed to FileUpload so far
NoHome ==
    [selectedFile |-> << >>, fileContent |-> << >>, analysisReport |-> << >>,
     analyzing |-> FALSE, location |-> [path |-> "/", id |-> 0],
     toasts |-> << >>, reads |-> << >>, uploads |-> 0,
     mutation |-> NoMutation]

\* the browser before anything happened: no advisory call made, the AI
\* summary card mounted and loading, the home page as mounted
NoClient ==
    [calls |-> << >>,
     summary |-> [loading |-> TRUE, error |-> "null", insights |-> << >>],
     home |-> NoHome]

-----------------------------------------------------------------------------
(* Arithmetic helpers *)

Abs(x) == IF x < 0 THEN -x ELSE x
Min(a, b) == IF a < b THEN a ELSE b
Max(a, b) == IF a > b THEN a ELSE b
\* CeilDiv rounding down
CeilDiv_floor(a, b) == a \div b

\* Math.ceil(a / b)
CeilDiv(a, b) == (a + b - 1) \div b

RECURSIVE SqrtSearch(_, _, _)
SqrtSearch(n, lo, hi) ==
    IF lo >= hi THEN lo
    ELSE LET mid == (lo + hi + 1) \div 2
         IN IF mid * mid <= n THEN SqrtSearch(n, mid, hi)
                              ELSE SqrtSearch(n, lo, mid - 1)

\* Math.sqrt on a non-negative integer, rounded down
Sqrt(n) == SqrtSearch(n, 0, 46340)

\* Math.acos(c) * (180 / Math.PI) for c = 0.00, 0.01, ..., 1.00, in tenths
\* of a degree
AcosTable ==
    << 900, 894, 889, 883, 877, 871, 866, 860, 854, 848, 843, 837, 831, 825,
       820, 814, 808, 802, 796, 790, 785, 779, 773, 767, 761, 755, 749, 743,
       737, 731, 725, 719, 713, 707, 701, 695, 689, 683, 677, 670, 664, 658,
       652, 645, 639, 633, 626, 620, 613, 607, 600, 593, 587, 580, 573, 566,
       559, 552, 545, 538, 531, 524, 517, 509, 502, 495, 487, 479, 472, 464,
       456, 448, 439, 431, 423, 414, 405, 396, 387, 378, 369, 359, 349, 339,
       329, 318, 307, 295, 284, 271, 258, 245, 231, 216, 199, 182, 163, 141,
       115, 81, 0 >>

\* Math.acos in tenths of a degree; NaN outside [-1, 1] and on NaN
AcosDeg(c) ==
    IF c = NaN THEN NaN
    ELSE IF c > 100 \/ c < -100 THEN NaN
    ELSE IF c >= 0 THEN AcosTable[c + 1]
    ELSE 1800 - AcosTable[(-c) + 1]

-----------------------------------------------------------------------------
(* Typed arrays.  A Float32Array is [length, filled, cycle]: element k      *)
(* (0-based) is cycle[(k % Len(cycle)) + 1] when k < filled, the 0 that     *)
(* `new Float32Array(n)` put there when filled <= k < length, and           *)
(* undefined (NaN in arithmetic) when k >= length.                          *)

Float32Array(seq) == [length |-> Len(seq), filled |-> Len(seq), cycle |-> seq]

At(buf, k) ==
    IF k < 0 \/ k >= buf.length THEN NaN
    ELSE IF k >= buf.filled THEN 0
    ELSE buf.cycle[(k % Len(buf.cycle)) + 1]

EmptyArray == Float32Array(<< >>)

RECURSIVE Flatten(_)
Flatten(seqs) ==
    IF seqs = << >> THEN << >>
    ELSE IF Len(seqs) = 1 THEN seqs[1]
    ELSE LET h == Len(seqs) \div 2
         IN Flatten(SubSeq(seqs, 1, h)) \o Flatten(SubSeq(seqs, h + 1, Len(seqs)))

-----------------------------------------------------------------------------
(* Input blobs.  A blob is [byteLength, header, count, cycle, lines]:       *)
(*   header  the first five bytes (fewer in a shorter blob) as TextDecoder  *)
(*           decodes them;                                                  *)
(*   count   the little-endian uint32 at byte offset 80;                    *)
(*   cycle   the 50-byte records that follow offset 84: record k (0-based)  *)
(*           is cycle[(k % Len(cycle)) + 1], a normal n and nine vertex     *)
(*           coordinates v, the 2-byte attribute left out;                  *)
(*   lines   the lines TextDecoder + split('\n') gives after the "solid"    *)
(*           line, each a sequence of blank-separated tokens.               *)

R_point   == [n |-> <<0, 0, 0>>,    v |-> <<0, 0, 0,  0, 0, 0,    0, 0, 0>>]
R_sliver  == [n |-> <<0, 0, 0>>,    v |-> <<0, 0, 0,  0, 0, 1,    0, 0, 0>>]
R_thin    == [n |-> <<-100, 0, 0>>, v |-> <<0, 0, 0,  0, 0, 30,   0, 30, 0>>]
R_flatXY  == [n |-> <<0, 0, 100>>,  v |-> <<0, 0, 0,  100, 0, 0,  0, 100, 0>>]
R_floorXZ == [n |-> <<0, 100, 0>>,  v |-> <<0, 0, 0,  0, 0, 100,  100, 0, 0>>]
R_wallYZ  == [n |-> <<100, 0, 0>>,  v |-> <<0, 0, 0,  0, 100, 0,  0, 0, 100>>]

Records == {R_point, R_sliver, R_thin, R_flatXY, R_floorXZ}

RECURSIVE SeqsUpTo(_, _)
SeqsUpTo(S, n) ==
    IF n = 0 THEN {<< >>}
    ELSE LET shorter == SeqsUpTo(S, n - 1)
         IN shorter \cup {Append(q, x) : q \in {r \in shorter : Len(r) = n - 1}, x \in S}

L_facet  == <<"facet", "normal", "0", "0", "1.0">>
L_FACET  == <<"FACET", "NORMAL", "1", "0", "0">>
L_vertex == <<"vertex", "0", "0", "0">>
L_VERTEX == <<"VERTEX", "0.3", "0", "0">>
L_short  == <<"vertex", "1">>
L_other  == <<"endfacet">>

Lines == {L_facet, L_FACET, L_vertex, L_VERTEX, L_short, L_other}

\* the text encoding of the one triangle of R_thin
ThinText ==
    << <<"facet", "normal", "-1", "0", "0">>, <<"outer", "loop">>,
       <<"vertex", "0", "0", "0">>, <<"vertex", "0", "0", "0.3">>,
       <<"vertex", "0", "0.3", "0">>, <<"endloop">>, <<"endfacet">> >>

ExpectedSize(count) == HEADER_BYTES + count * RECORD_BYTES

\* bytes a mesh file is off from what its triangle count implies
SizeErrors == {0, -10, 2, SIZE_SLACK + 88}

BinaryBlobs ==
    {[byteLength |-> ExpectedSize(Len(c)) + d, header |-> "binar",
      count |-> Len(c), cycle |-> c, lines |-> << >>] :
        c \in SeqsUpTo(Records, MaxTriangles), d \in SizeErrors}

TextBlobs ==
    {[byteLength |-> 6 + 14 * Len(ls), header |-> "solid",
      count |-> 0, cycle |-> << >>, lines |-> ls] :
        ls \in SeqsUpTo(Lines, MaxLines)}

OddBlobs ==
    { \* the empty blob, a blob too short to sniff, the 10-byte blob
      [byteLength |-> 0,  header |-> "", count |-> 0, cycle |-> << >>, lines |-> << >>],
      [byteLength |-> 3,  header |-> "bin", count |-> 0, cycle |-> << >>, lines |-> << >>],
      [byteLength |-> 4,  header |-> "soli", count |-> 0, cycle |-> << >>, lines |-> << >>],
      [byteLength |-> 10, header |-> "binar", count |-> 5, cycle |-> << >>, lines |-> << >>],
      [byteLength |-> 83, header |-> "binar", count |-> 0, cycle |-> << >>, lines |-> << >>],
      \* more triangles than the loader takes, in a file of matching size
      [byteLength |-> ExpectedSize(MAX_TRIANGLE_COUNT + 1), header |-> "binar",
       count |-> MAX_TRIANGLE_COUNT + 1, cycle |-> <<R_thin>>, lines |-> << >>],
      \* binary meshes whose 80-byte header begins with "solid", "SOLID",
      \* " soli"
      [byteLength |-> ExpectedSize(1), header |-> "solid",
       count |-> 1, cycle |-> <<R_thin>>, lines |-> << >>],
      [byteLength |-> ExpectedSize(1), header |-> "SOLID",
       count |-> 1, cycle |-> <<R_thin>>, lines |-> << >>],
      [byteLength |-> ExpectedSize(1), header |-> " soli",
       count |-> 1, cycle |-> <<R_thin>>, lines |-> << >>],
      \* more thin triangles than one category reports
      [byteLength |-> ExpectedSize(MAX_ISSUES_PER_CATEGORY + 2), header |-> "binar",
       count |-> MAX_ISSUES_PER_CATEGORY + 2, cycle |-> <<R_thin>>, lines |-> << >>],
      \* one chunk of triangles and 125 more, every 112th of them thin (nine
      \* in the first chunk, two in the second), the others points
      [byteLength |-> ExpectedSize(ANALYSIS_CHUNK_SIZE + 125), header |-> "binar",
       count |-> ANALYSIS_CHUNK_SIZE + 125,
       cycle |-> [k \in 1..112 |-> IF k = 1 THEN R_thin ELSE R_point],
       lines |-> << >>],
      \* one vertical face, its normal along x
      [byteLength |-> ExpectedSize(1), header |-> "binar",
       count |-> 1, cycle |-> <<R_wallYZ>>, lines |-> << >>],
      \* a well-formed text mesh, and one that begins with "Solid"
      [byteLength |-> 6 + 14 * Len(ThinText), header |-> "solid",
       count |-> 0, cycle |-> << >>, lines |-> ThinText],
      [byteLength |-> 6 + 14 * Len(ThinText), header |-> "Solid",
       count |-> 0, cycle |-> << >>, lines |-> ThinText] }

Blobs == BinaryBlobs \cup TextBlobs \cup OddBlobs

\* analyzeGeometry's first argument: the empty string, a string atob
\* rejects, or the base64 text of a blob
NoContent == [kind |-> "empty"]
BadBase64 == [kind |-> "malformed"]
Base64(blob) == [kind |-> "base64", blob |-> blob]
FileContents == {NoContent, BadBase64} \cup {Base64(b) : b \in Blobs}

\* atob + the byte copy of analyzeGeometry
atob(content) == content.blob

-----------------------------------------------------------------------------
(* Mesh loader, text path *)

\* toLowerCase leaving every letter as it is
toLowerCase_asIs(tok) == tok

\* String.prototype.toLowerCase on one token
toLowerCase(tok) ==
    CASE tok = "FACET" -> "facet"
      [] tok = "NORMAL" -> "normal"
      [] tok = "VERTEX" -> "vertex"
      [] tok = "SOLID" -> "solid"
      [] tok = "Solid" -> "solid"
      [] OTHER -> tok

\* parseFloat on one token (two decimals); parts[k] past the end is undefined
parseFloat(parts, k) ==
    IF k > Len(parts) THEN NaN
    ELSE CASE parts[k] = "0" -> 0
           [] parts[k] = "1" -> 100
           [] parts[k] = "1.0" -> 100
           [] parts[k] = "0.3" -> 30
           [] parts[k] = "-1" -> -100
           [] OTHER -> NaN

\* line.startsWith('facet normal ') on a trimmed line
IsFacetNormal(line) ==
    Len(line) >= 3 /\ line[1] = "facet" /\ line[2] = "normal"

\* line.startsWith('vertex ') on a trimmed line
IsVertex(line) ==
    Len(line) >= 2 /\ line[1] = "vertex"

\* lines[i].toLowerCase()
Lowered(raw) == [k \in 1..Len(raw) |-> toLowerCase(raw[k])]

\* parseAsciiLine with the normal pushed once per facet, not once per vertex
parseAsciiLine_perFacet(st, raw) ==
    LET line == Lowered(raw)
        n == <<parseFloat(line, 3), parseFloat(line, 4), parseFloat(line, 5)>>
    IN IF IsFacetNormal(line)
       THEN [st EXCEPT !.currentNormal = n, !.normals = @ \o n]
       ELSE IF IsVertex(line)
       THEN [st EXCEPT
                !.vertices = @ \o <<parseFloat(line, 2), parseFloat(line, 3),
                                    parseFloat(line, 4)>>]
       ELSE st

\* one iteration of the line loop; st = [vertices, normals, currentNormal]
parseAsciiLine(st, raw) ==
    LET line == Lowered(raw)
    IN IF IsFacetNormal(line)
       THEN [st EXCEPT !.currentNormal =
                <<parseFloat(line, 3), parseFloat(line, 4), parseFloat(line, 5)>>]
       ELSE IF IsVertex(line)
       THEN [st EXCEPT
                !.vertices = @ \o <<parseFloat(line, 2), parseFloat(line, 3),
                                    parseFloat(line, 4)>>,
                !.normals = IF st.currentNormal # << >>
                            THEN @ \o st.currentNormal ELSE @]
       ELSE st

RECURSIVE parseAsciiLoop(_, _)
parseAsciiLoop(st, lines) ==
    IF lines = << >> THEN st
    ELSE parseAsciiLoop(parseAsciiLine(st, Head(lines)), Tail(lines))

parseAsciiSTL(lines) ==
    LET st == parseAsciiLoop([vertices |-> << >>, normals |-> << >>,
                              currentNormal |-> << >>], lines)
    IN [triangles |-> Float32Array(st.vertices),
        normals |-> Float32Array(st.normals)]

\* String.prototype.trim on the decoded header
trim(text) ==
    CASE text = " soli" -> "soli"
      [] OTHER -> text

\* isAsciiSTL taking every blob for text
isAsciiSTL_always(blob) == TRUE

\* isAsciiSTL; `new Uint8Array(data, 0, 5)` throws on fewer than 5 bytes
isAsciiSTL(blob) == toLowerCase(trim(blob.header)) = "solid"

\* the first five bytes of the blob equal "solid" when case is ignored
Solid(blob) == blob.header \in {"solid", "SOLID", "Solid"}

-----------------------------------------------------------------------------
(* Mesh loader, binary path *)

\* SizeAccepted with the 512 bytes of slack in every build
SizeAccepted_slack(b, count, byteLength) ==
    /\ ~(count <= 0 \/ count > MAX_TRIANGLE_COUNT)
    /\ ~(Abs(byteLength - ExpectedSize(count)) > SIZE_SLACK)

\* the size validation of the binary path; part_020 allows 512 bytes of slack
SizeAccepted(b, count, byteLength) ==
    IF b = "part_020"
    THEN /\ ~(count <= 0 \/ count > MAX_TRIANGLE_COUNT)
         /\ ~(Abs(byteLength - ExpectedSize(count)) > SIZE_SLACK)
    ELSE ~(count <= 0 \/ count > MAX_TRIANGLE_COUNT
             \/ byteLength # ExpectedSize(count))

\* NewTriangles with the length of the normal buffer
NewTriangles_three(blob) ==
    [length |-> blob.count * 3, filled |-> 0,
     cycle |-> Flatten([k \in 1..Len(blob.cycle) |-> blob.cycle[k].v])]

\* new Float32Array(triangleCount * 9), to be filled record by record
NewTriangles(blob) ==
    [length |-> blob.count * 9, filled |-> 0,
     cycle |-> Flatten([k \in 1..Len(blob.cycle) |-> blob.cycle[k].v])]

\* new Float32Array(triangleCount * 3)
NewNormals(blob) ==
    [length |-> blob.count * 3, filled |-> 0,
     cycle |-> Flatten([k \in 1..Len(blob.cycle) |-> blob.cycle[k].n])]

\* the check part_020 makes before reading a record: stop at the end of file
ReachedEndOfFile(b, offset, byteLength) ==
    b = "part_020" /\ offset + RECORD_BYTES > byteLength

-----------------------------------------------------------------------------
(* Analyzer: measures of the triangle at buffer offset k *)

Coords(buf, k) == [j \in 1..9 |-> At(buf, k + j - 1)]

\* AfterRead working on the buffer in place
AfterRead_inPlace(buf, k) ==
    [buf EXCEPT !.cycle = [j \in 1..Len(buf.cycle) |-> 0]]

\* the buffer after a loop body has examined offset k: the body copies the
\* elements into arrays and vectors of its own and works on the copies
AfterRead(buf, k) == buf

HasNaN(t) == \E j \in 1..Len(t) : t[j] = NaN

\* Math.sqrt of the summed squared differences of vertices a and b
\* (a, b in 0..2), four decimals
EdgeLength(t, a, b) ==
    LET dx == t[3 * b + 1] - t[3 * a + 1]
        dy == t[3 * b + 2] - t[3 * a + 2]
        dz == t[3 * b + 3] - t[3 * a + 3]
    IN Sqrt((dx * dx + dy * dy + dz * dz) * 10000)

\* avgThickness taking the first edge for the mean
avgThickness_first(t) == IF HasNaN(t) THEN NaN ELSE EdgeLength(t, 0, 1)

\* geometry_1, part_020, part_021: mean of the three edge lengths
avgThickness(t) ==
    IF HasNaN(t) THEN NaN
    ELSE (EdgeLength(t, 0, 1) + EdgeLength(t, 1, 2) + EdgeLength(t, 2, 0)) \div 3

\* geometry_2: length of the first edge
thickness(t) == IF HasNaN(t) THEN NaN ELSE EdgeLength(t, 0, 1)

\* the thickness a build measures
Measured(b, t) == IF b = "geometry_2" THEN thickness(t) ELSE avgThickness(t)

\* ThinWall without the noise floor
ThinWall_noFloor(b, x, p) ==
    IF x = NaN THEN FALSE ELSE x < MIN_WALL_THICKNESS(p) * 100

\* the condition under which processGeometryChunk pushes an issue;
\* x has four decimals, NaN compares false
ThinWall(b, x, p) ==
    IF x = NaN THEN FALSE
    ELSE IF b = "geometry_2"
    THEN x < MIN_WALL_THICKNESS(p) * 100
    ELSE x < MIN_WALL_THICKNESS(p) * 100 /\ x > 100

\* Number.prototype.toFixed(2) of a four-decimal value, in hundredths
toFixed2(x) == (x + 50) \div 100

\* edge1 x edge2 with edge1 = v2 - v1, edge2 = v3 - v1
Cross(t) ==
    LET ax == t[4] - t[1]   ay == t[5] - t[2]   az == t[6] - t[3]
        bx == t[7] - t[1]   by == t[8] - t[2]   bz == t[9] - t[3]
    IN <<ay * bz - az * by, az * bx - ax * bz, ax * by - ay * bx>>

\* Vector3.length() of the cross product
CrossLength(t) ==
    LET c == Cross(t) IN Sqrt(c[1] * c[1] + c[2] * c[2] + c[3] * c[3])

\* normal.dot(upVector) with upVector = (0, 1, 0) and normal the normalized
\* cross product; Vector3.normalize() divides by (length || 1)
NormalDotUp(t) ==
    LET c == Cross(t)
        len == CrossLength(t)
        d == IF len = 0 THEN 1 ELSE len
    IN IF c[2] >= 0 THEN (c[2] * 100) \div d ELSE -(((-c[2]) * 100) \div d)

\* angle to the up axis computed from the vertices, tenths of a degree
angle(t) == IF HasNaN(t) THEN NaN ELSE AcosDeg(Abs(NormalDotUp(t)))

\* faceArea = |edge1 x edge2| / 2, four decimals of a square millimetre
faceArea(t) == IF HasNaN(t) THEN NaN ELSE CrossLength(t) \div 2

\* geometry_2: angle from the stored normal at offset k of the normal buffer
normalAngle(buf, k) == AcosDeg(At(buf, k + 2))

\* the condition under which analyzeOverhangs pushes an issue for the
\* triangle t (geometry_1, part_020, part_021)
Overhanging(b, t) ==
    IF angle(t) = NaN THEN FALSE
    ELSE IF b = "geometry_1"
    THEN angle(t) > MAX_OVERHANG_ANGLE * 10
    ELSE angle(t) > MAX_OVERHANG_ANGLE * 10 /\ faceArea(t) > 100

\* geometry_2: the condition on the stored normal
NormalOverhanging(buf, k) ==
    normalAngle(buf, k) # NaN /\ normalAngle(buf, k) > MAX_OVERHANG_ANGLE * 10

\* WallIssue with the time of the finding in the text
WallIssue_clock(x) == [kind |-> "wall", value |-> toFixed2(x) + now]

\* the text of a wall-thickness issue: the thickness with two decimals
WallIssue(x) == [kind |-> "wall", value |-> toFixed2(x)]
OverhangIssue(a) == [kind |-> "overhang", value |-> a]

-----------------------------------------------------------------------------
(* Analyzer: the wall-thickness pass *)

\* one iteration of the loop of processGeometryChunk at offset k, once the
\* loop condition k < end holds; acc = [issues, pass, at, last]: the chunk's
\* issues and verdict, the offsets the issues were measured at and the
\* offset examined last
ChunkStep(b, buf, k, p, acc) ==
    IF ~(Len(acc.issues) < MAX_ISSUES_PER_CATEGORY) THEN acc
    ELSE LET x == Measured(b, Coords(buf, k))
         IN IF ThinWall(b, x, p)
            THEN [issues |-> Append(acc.issues, WallIssue(x)),
                  pass |-> FALSE,
                  at |-> Append(acc.at, k),
                  last |-> k]
            ELSE [acc EXCEPT !.last = k]

\* the loop of processGeometryChunk over the offsets k, k + 9, ... below
\* end, in that order (the first half of the iterations, then the second)
RECURSIVE ChunkLoop(_, _, _, _, _, _)
ChunkLoop(b, buf, k, end, p, acc) ==
    IF ~(k < end) THEN acc
    ELSE IF k + 9 >= end THEN ChunkStep(b, buf, k, p, acc)
    ELSE LET mid == k + (((end - k + 8) \div 9) \div 2) * 9
             half == ChunkLoop(b, buf, k, mid, p, acc)
         IN IF ~(Len(half.issues) < MAX_ISSUES_PER_CATEGORY) THEN half
            ELSE ChunkLoop(b, buf, mid, end, p, half)

processGeometryChunk(b, buf, start, chunkSize, p) ==
    ChunkLoop(b, buf, start, Min(start + chunkSize * 9, buf.length), p,
              [issues |-> << >>, pass |-> TRUE, at |-> << >>, last |-> start])

\* Slice keeping the last n entries
Slice_last(seq, n) ==
    SubSeq(seq, Len(seq) - Min(Max(n, 0), Len(seq)) + 1, Len(seq))

\* Array.prototype.slice(0, n)
Slice(seq, n) == SubSeq(seq, 1, Min(Max(n, 0), Len(seq)))

\* MergePass dropping the chunk's verdict
MergePass_keep(p, chunkPass) == p

\* pass = pass && chunkPass
MergePass(p, chunkPass) == p /\ chunkPass

\* TimedOut never finding the budget exceeded
TimedOut_never == FALSE

\* Date.now() - startTime > MAX_PROCESSING_TIME
TimedOut == now - startTime > MAX_PROCESSING_TIME

-----------------------------------------------------------------------------
(* Analyzer: the overhang pass *)

\* OverhangStep without the minimum SAMPLING_RATE
OverhangStep_noMinimum(b) ==
    CASE b = "geometry_1" -> 9
      [] b = "geometry_2" ->
            Max(1, normals.length \div ANALYSIS_CHUNK_SIZE) * 3
      [] OTHER ->
            9 * CeilDiv(triangles.length \div 9, MAX_TRIANGLES)

\* the number of buffer elements one iteration of the overhang loop advances
OverhangStep(b) ==
    CASE b = "geometry_1" -> 9
      [] b = "geometry_2" ->
            Max(1, normals.length \div ANALYSIS_CHUNK_SIZE) * 3
      [] OTHER ->
            9 * Max(SAMPLING_RATE, CeilDiv(triangles.length \div 9, MAX_TRIANGLES))

\* the buffer the overhang loop runs over
OverhangLength(b) ==
    IF b = "geometry_2" THEN normals.length ELSE triangles.length

\* OverhangLoopRuns without the cap on the issue list
OverhangLoopRuns_uncapped == i < OverhangLength(build)

\* the condition of the loop of analyzeOverhangs
OverhangLoopRuns ==
    i < OverhangLength(build) /\ Len(issues) < MAX_ISSUES_PER_CATEGORY

\* the process-specific findings analyzeGeometry adds (geometry_2 only)
holeSize(b, p) ==
    IF b = "geometry_2" /\ p = "cnc_machining"
    THEN [issues |-> <<[kind |-> "hole", value |-> 0]>>, pass |-> FALSE]
    ELSE [issues |-> << >>, pass |-> TRUE]

draftAngles(b, p) ==
    IF b = "geometry_2" /\ p = "injection_molding"
    THEN [issues |-> <<[kind |-> "draft", value |-> 0]>>, pass |-> FALSE]
    ELSE [issues |-> << >>, pass |-> TRUE]

-----------------------------------------------------------------------------
(* The analyzeGeometry call as a state machine *)

Data == data[1]

\* the variables of a call that has not started
Idle ==
    /\ pc = "idle"
    /\ data = << >>
    /\ startTime = 0
    /\ i = 0
    /\ triangles = EmptyArray
    /\ normals = EmptyArray
    /\ parsed = FALSE
    /\ maxRead = 0
    /\ issues = << >>
    /\ pass = TRUE
    /\ issueAt = << >>
    /\ scanned = -1
    /\ wallThickness = << >>
    /\ wallAt = << >>
    /\ overhangs = << >>
    /\ overAt = << >>
    /\ completedIn = << >>
    /\ report = << >>
    /\ error = "none"

Init ==
    /\ build \in Builds
    /\ process \in ProcessType
    /\ fileContent \in FileContents
    /\ now = 0
    /\ Idle
    /\ other = << >>
    /\ insights = << >>
    /\ tables = ModuleTables
    /\ server = NoRequests
    /\ client = NoClient

-----------------------------------------------------------------------------
(* Material recommendation and custom guideline validation *)

\* the materials of a list, as a set
Range(seq) == {seq[k] : k \in 1..Len(seq)}

\* PROCESS_MATERIALS[process]
PROCESS_MATERIALS(p) == tables.PROCESS_MATERIALS[p]

\* the switch of generateMaterialRecommendations ends in a default branch
HasDefaultBranch(b) == b # "part_022"

\* generateMaterialRecommendations(process, wallThicknessIssues, overhangIssues)
generateMaterialRecommendations(b, p, wallThicknessIssues, overhangIssues) ==
    LET availableMaterials == PROCESS_MATERIALS(p)
    IN IF p = "3d_printing"
       THEN IF overhangIssues
            THEN [recommended |-> <<"PLA", "PETG">>,
                  notRecommended |-> <<"ABS", "Nylon">>,
                  reasoning |-> "Due to significant overhangs, materials with better bridging properties are recommended."]
            ELSE IF wallThicknessIssues
            THEN [recommended |-> <<"PETG", "ABS">>,
                  notRecommended |-> <<"TPU", "PLA">>,
                  reasoning |-> "Thin walls require materials with higher strength and rigidity."]
            ELSE [recommended |-> availableMaterials,
                  notRecommended |-> << >>,
                  reasoning |-> "No significant geometric constraints, all materials are suitable."]
       ELSE IF p = "cnc_machining"
       THEN IF wallThicknessIssues
            THEN [recommended |-> <<"Aluminum 6061", "Steel 1018">>,
                  notRecommended |-> <<"Brass", "PEEK">>,
                  reasoning |-> "Thin walls require materials with high machinability and strength."]
            ELSE [recommended |-> availableMaterials,
                  notRecommended |-> << >>,
                  reasoning |-> "Standard machining requirements, all materials are suitable."]
       ELSE IF HasDefaultBranch(b)
       THEN [recommended |-> availableMaterials,
             notRecommended |-> << >>,
             reasoning |-> "Standard manufacturing requirements, all materials are suitable."]
       ELSE [recommended |-> << >>, notRecommended |-> << >>, reasoning |-> ""]

\* guideline lines, by their words; G_blank is an empty line
G_wall    == <<"Min", "wall", "Thickness", "2mm">>
G_over    == <<"no", "OVERHANGS", "above", "45deg">>
G_support == <<"avoid", "unsupported", "spans">>
G_both    == <<"thickness", "under", "overhang", "3mm">>
G_none    == <<"round", "all", "corners">>
G_blank   == << >>
GuidelineLines == {G_wall, G_over, G_support, G_both, G_none, G_blank}

\* rule.toLowerCase(), word by word
toLowerCaseRule(rule) ==
    [k \in 1..Len(rule) |->
        CASE rule[k] = "Min" -> "min"
          [] rule[k] = "Thickness" -> "thickness"
          [] rule[k] = "OVERHANGS" -> "overhangs"
          [] OTHER -> rule[k]]

\* word.includes(keyword)
WordIncludes(word, keyword) ==
    \/ word = keyword
    \/ word = "overhangs" /\ keyword = "overhang"
    \/ word = "unsupported" /\ keyword = "support"

\* lowerRule.includes(keyword), keyword being one word
includes(lowerRule, keyword) ==
    \E k \in 1..Len(lowerRule) : WordIncludes(lowerRule[k], keyword)

\* lowerRule.includes('wall thickness')
includesWallThickness(lowerRule) ==
    \E k \in 1..(Len(lowerRule) - 1) :
        lowerRule[k] = "wall" /\ lowerRule[k + 1] = "thickness"

\* designGuidelines.split('\n').map(trim).filter(line => line.length > 0)
Rules(designGuidelines) == SelectSeq(designGuidelines, LAMBDA line : line # << >>)

\* the detail string of a failed rule: the pass it failed and the count
Details(subject, count) == <<[found |-> count, of |-> subject]>>

\* one rule checked, with the overhang keywords looked for first and the
\* thickness keywords deciding after them
ValidateRule_wallLast(rule, wall, over) ==
    LET lowerRule == toLowerCaseRule(rule)
        thick == includesWallThickness(lowerRule) \/ includes(lowerRule, "thickness")
        hang == includes(lowerRule, "overhang") \/ includes(lowerRule, "support")
    IN IF thick
       THEN [rule |-> rule, pass |-> wall.pass,
             details |-> IF ~wall.pass
                         THEN Details("wall thickness", Len(wall.issues))
                         ELSE << >>]
       ELSE IF hang
       THEN [rule |-> rule, pass |-> over.pass,
             details |-> IF ~over.pass
                         THEN Details("overhang", Len(over.issues))
                         ELSE << >>]
       ELSE [rule |-> rule, pass |-> TRUE, details |-> << >>]

\* one rule checked by the callback of validateCustomGuidelines: the second
\* if overwrites what the first one set
ValidateRule(rule, wall, over) ==
    LET lowerRule == toLowerCaseRule(rule)
        thick == includesWallThickness(lowerRule) \/ includes(lowerRule, "thickness")
        hang == includes(lowerRule, "overhang") \/ includes(lowerRule, "support")
    IN IF hang
       THEN [rule |-> rule, pass |-> over.pass,
             details |-> IF ~over.pass
                         THEN Details("overhang", Len(over.issues))
                         ELSE << >>]
       ELSE IF thick
       THEN [rule |-> rule, pass |-> wall.pass,
             details |-> IF ~wall.pass
                         THEN Details("wall thickness", Len(wall.issues))
                         ELSE << >>]
       ELSE [rule |-> rule, pass |-> TRUE, details |-> << >>]

\* validateCustomGuidelines(guidelines, wallThickness, overhangs)
validateCustomGuidelines(guidelines, wall, over) ==
    [k \in 1..Len(guidelines) |-> ValidateRule(guidelines[k], wall, over)]

\* the customGuidelines block of the report; undefined (<< >>) when no
\* designGuidelines text is given
CustomGuidelines(designGuidelines, wall, over) ==
    IF designGuidelines = << >> THEN << >>
    ELSE <<[rules |-> Rules(designGuidelines),
            validations |->
                validateCustomGuidelines(Rules(designGuidelines), wall, over)]>>

\* the report with the two enrichment blocks
EnrichedReport(b, p, wall, over, designGuidelines) ==
    [wallThickness |-> wall,
     overhangs |-> over,
     holeSize |-> [issues |-> << >>, pass |-> TRUE],
     draftAngles |-> [issues |-> << >>, pass |-> TRUE],
     materialRecommendations |->
        generateMaterialRecommendations(b, p, Len(wall.issues) > 0,
                                        Len(over.issues) > 0),
     customGuidelines |-> CustomGuidelines(designGuidelines, wall, over)]

\* the report analyzeGeometry assembles from the two results; the call is
\* made without designGuidelines
Report(wall, over) ==
    IF build = "part_021"
    THEN EnrichedReport(build, process, wall, over, << >>)
    ELSE [wallThickness |-> wall,
          overhangs |-> over,
          holeSize |-> holeSize(build, process),
          draftAngles |-> draftAngles(build, process)]

\* Caught answering an error with a report of what has been found so far
Caught_fallback(e) ==
    [pc |-> "done", error |-> "none",
     report |-> <<Report([issues |-> << >>, pass |-> TRUE],
                         [issues |-> << >>, pass |-> TRUE])>>]

\* what the caller of analyzeGeometry gets when an error reaches the catch
\* block of analyzeGeometry: the block logs and rethrows
Caught(e) == [pc |-> "threw", error |-> e, report |-> << >>]

\* an error thrown anywhere below analyzeGeometry: every catch on the way
\* rethrows it
Throw(e) ==
    /\ pc' = Caught(e).pc
    /\ error' = Caught(e).error
    /\ report' = Caught(e).report
    /\ UNCHANGED <<other, insights, tables, server, client, build, fileContent, process, now, startTime, i, triangles,
                   normals, parsed, maxRead, issues, pass, issueAt, scanned,
                   wallThickness, wallAt, overhangs, overAt, completedIn>>

\* parseSTL returns {triangles, normals}; analyzeGeometry calls
\* analyzeWallThickness, which takes its startTime and empties its issues
ParseReturns(tris, norms) ==
    /\ triangles' = tris
    /\ normals' = norms
    /\ parsed' = TRUE
    /\ pc' = "wall"
    /\ startTime' = now
    /\ i' = 0
    /\ issues' = << >>
    /\ pass' = TRUE
    /\ issueAt' = << >>
    /\ scanned' = -1
    /\ UNCHANGED <<other, insights, tables, server, client, build, fileContent, process, now, wallThickness, wallAt,
                   overhangs, overAt, completedIn, report, error>>

\* analyzeGeometry up to the first loop: the content check, atob, and
\* parseSTL's sniffing and validation (the whole of parseAsciiSTL on the
\* text path)
analyzeGeometry ==
    /\ pc = "idle"
    /\ IF fileContent.kind = "empty"
       THEN Throw("No file content provided for analysis") /\ UNCHANGED data
       ELSE IF fileContent.kind = "malformed"
       THEN Throw("InvalidCharacterError") /\ UNCHANGED data
       ELSE LET blob == atob(fileContent)
            IN /\ data' = <<blob>>
               /\ IF blob.byteLength = 0
                  THEN Throw("Empty STL file provided")
                  ELSE IF blob.byteLength < 5
                  THEN Throw("RangeError")
                  ELSE IF isAsciiSTL(blob)
                  THEN LET r == parseAsciiSTL(blob.lines)
                       IN ParseReturns(r.triangles, r.normals) /\ UNCHANGED maxRead
                  ELSE IF blob.byteLength < HEADER_BYTES
                  THEN Throw("Invalid STL file: Too small for binary format")
                  ELSE IF ~SizeAccepted(build, blob.count, blob.byteLength)
                  THEN Throw("Invalid binary STL file")
                  ELSE /\ pc' = "parse"
                       /\ startTime' = now
                       /\ i' = 0
                       /\ triangles' = NewTriangles(blob)
                       /\ normals' = NewNormals(blob)
                       /\ UNCHANGED <<other, insights, tables, server, client, build, fileContent, process, now, parsed,
                                      maxRead, issues, pass, issueAt, scanned,
                                      wallThickness, wallAt, overhangs, overAt, completedIn,
                                      report, error>>

\* one iteration of the record loop of parseSTL
parseSTL_record ==
    /\ pc = "parse"
    /\ i < Data.count
    /\ LET offset == HEADER_BYTES + i * RECORD_BYTES
       IN IF TimedOut
          THEN Throw("STL parsing timeout: File too complex") /\ UNCHANGED data
          ELSE IF ReachedEndOfFile(build, offset, Data.byteLength)
          THEN ParseReturns(triangles, normals) /\ UNCHANGED <<data, maxRead>>
          ELSE IF offset + RECORD_BYTES > Data.byteLength
          THEN Throw("RangeError") /\ UNCHANGED data
          ELSE /\ normals' = [normals EXCEPT !.filled = (i + 1) * 3]
               /\ triangles' = [triangles EXCEPT !.filled = (i + 1) * 9]
               /\ maxRead' = offset + RECORD_BYTES
               /\ i' = i + 1
               /\ UNCHANGED <<other, insights, tables, server, client, build, pc, fileContent, process, data, now,
                              startTime, parsed, issues, pass, issueAt, scanned,
                              wallThickness, wallAt, overhangs, overAt, completedIn, report,
                              error>>

\* the record loop ends: parseSTL returns
parseSTL_return ==
    /\ pc = "parse"
    /\ ~(i < Data.count)
    /\ ParseReturns(triangles, normals)
    /\ UNCHANGED <<data, maxRead>>

\* one iteration of the chunk loop of analyzeWallThickness
analyzeWallThickness_chunk ==
    /\ pc = "wall"
    /\ i < triangles.length
    /\ Len(issues) < MAX_ISSUES_PER_CATEGORY
    /\ IF TimedOut
       THEN Throw("Wall thickness analysis timeout: Model too complex")
       ELSE LET chunk == processGeometryChunk(build, triangles, i,
                                              ANALYSIS_CHUNK_SIZE, process)
                room == MAX_ISSUES_PER_CATEGORY - Len(issues)
            IN /\ issues' = issues \o Slice(chunk.issues, room)
               /\ issueAt' = issueAt \o Slice(chunk.at, room)
               /\ scanned' = chunk.last
               /\ pass' = MergePass(pass, chunk.pass)
               /\ i' = i + ANALYSIS_CHUNK_SIZE * 9
               /\ triangles' = AfterRead(triangles, i)
               /\ UNCHANGED <<other, insights, tables, server, client, build, pc, fileContent, process, now, startTime,
                              normals, parsed, maxRead,
                              wallThickness, wallAt, overhangs, overAt, completedIn, report,
                              error>>
    /\ UNCHANGED data

\* the chunk loop ends or breaks: analyzeWallThickness returns and
\* analyzeGeometry calls analyzeOverhangs
analyzeWallThickness_return ==
    /\ pc = "wall"
    /\ ~(i < triangles.length /\ Len(issues) < MAX_ISSUES_PER_CATEGORY)
    /\ wallThickness' = <<[issues |-> issues, pass |-> pass]>>
    /\ wallAt' = issueAt
    /\ pc' = "overhang"
    /\ startTime' = now
    /\ i' = 0
    /\ issues' = << >>
    /\ pass' = TRUE
    /\ issueAt' = << >>
    /\ scanned' = -1
    /\ completedIn' = Append(completedIn, now - startTime)
    /\ UNCHANGED <<other, insights, tables, server, client, build, fileContent, process, data, now, triangles, normals,
                   parsed, maxRead, overhangs, overAt, report, error>>

\* one iteration of the loop of analyzeOverhangs
analyzeOverhangs_triangle ==
    /\ pc = "overhang"
    /\ OverhangLoopRuns
    /\ IF TimedOut
       THEN Throw("Overhang analysis timeout: Model too complex")
       ELSE LET t == Coords(triangles, i)
                hit == IF build = "geometry_2"
                       THEN NormalOverhanging(normals, i)
                       ELSE Overhanging(build, t)
                a == IF build = "geometry_2"
                     THEN normalAngle(normals, i) ELSE angle(t)
            IN /\ issues' = IF hit THEN Append(issues, OverhangIssue(a)) ELSE issues
               /\ issueAt' = IF hit THEN Append(issueAt, i) ELSE issueAt
               /\ scanned' = i
               /\ pass' = IF hit THEN FALSE ELSE pass
               /\ i' = i + OverhangStep(build)
               /\ triangles' = AfterRead(triangles, i)
               /\ normals' = AfterRead(normals, i)
               /\ UNCHANGED <<other, insights, tables, server, client, build, pc, fileContent, process, now, startTime,
                              parsed, maxRead,
                              wallThickness, wallAt, overhangs, overAt, completedIn, report,
                              error>>
    /\ UNCHANGED data

\* the loop ends: analyzeOverhangs returns and analyzeGeometry returns the
\* report
analyzeOverhangs_return ==
    /\ pc = "overhang"
    /\ ~OverhangLoopRuns
    /\ overhangs' = <<[issues |-> issues, pass |-> pass]>>
    /\ overAt' = issueAt
    /\ completedIn' = Append(completedIn, now - startTime)
    /\ report' = <<Report(wallThickness[1], [issues |-> issues, pass |-> pass])>>
    /\ pc' = "done"
    /\ UNCHANGED <<other, insights, tables, server, client, build, fileContent, process, data, now, startTime, i,
                   triangles, normals, parsed, maxRead, issues, pass, issueAt, scanned,
                   wallThickness, wallAt, error>>

\* the clock moves while a loop runs
Tick ==
    /\ pc \in {"parse", "wall", "overhang"}
    /\ now < MaxTicks * (MAX_PROCESSING_TIME + 1)
    /\ now' = now + MAX_PROCESSING_TIME + 1
    /\ UNCHANGED <<other, insights, tables, server, client, build, pc, fileContent, process, data, startTime, i,
                   triangles, normals, parsed, maxRead, issues, pass, issueAt, scanned,
                   wallThickness, wallAt, overhangs, overAt, completedIn, report, error>>

Next ==
    \/ analyzeGeometry
    \/ parseSTL_record
    \/ parseSTL_return
    \/ analyzeWallThickness_chunk
    \/ analyzeWallThickness_return
    \/ analyzeOverhangs_triangle
    \/ analyzeOverhangs_return
    \/ Tick

Spec == Init /\ [][Next]_vars

-----------------------------------------------------------------------------
(* Two analyzeGeometry calls.  `other` holds the variables of the call that  *)
(* is not taking the next step; the clock and the code are shared.           *)

\* the variables of the call taking steps
ThisCall ==
    [pc |-> pc,
     fileContent |-> fileContent,
     process |-> process,
     data |-> data,
     startTime |-> startTime,
     i |-> i,
     triangles |-> triangles,
     normals |-> normals,
     parsed |-> parsed,
     maxRead |-> maxRead,
     issues |-> issues,
     pass |-> pass,
     issueAt |-> issueAt,
     scanned |-> scanned,
     wallThickness |-> wallThickness,
     wallAt |-> wallAt,
     overhangs |-> overhangs,
     overAt |-> overAt,
     completedIn |-> completedIn,
     report |-> report,
     error |-> error]

\* Switch with the issues array at module level, one for both calls
Switch_sharedIssues ==
    /\ other # << >>
    /\ pc' = other[1].pc
    /\ fileContent' = other[1].fileContent
    /\ process' = other[1].process
    /\ data' = other[1].data
    /\ startTime' = other[1].startTime
    /\ i' = other[1].i
    /\ triangles' = other[1].triangles
    /\ normals' = other[1].normals
    /\ parsed' = other[1].parsed
    /\ maxRead' = other[1].maxRead
    /\ issues' = issues
    /\ pass' = other[1].pass
    /\ issueAt' = other[1].issueAt
    /\ scanned' = other[1].scanned
    /\ wallThickness' = other[1].wallThickness
    /\ wallAt' = other[1].wallAt
    /\ overhangs' = other[1].overhangs
    /\ overAt' = other[1].overAt
    /\ completedIn' = other[1].completedIn
    /\ report' = other[1].report
    /\ error' = other[1].error
    /\ other' = <<ThisCall>>
    /\ UNCHANGED <<build, now, insights, tables, server, client>>

\* the other call takes the next steps
Switch ==
    /\ other # << >>
    /\ pc' = other[1].pc
    /\ fileContent' = other[1].fileContent
    /\ process' = other[1].process
    /\ data' = other[1].data
    /\ startTime' = other[1].startTime
    /\ i' = other[1].i
    /\ triangles' = other[1].triangles
    /\ normals' = other[1].normals
    /\ parsed' = other[1].parsed
    /\ maxRead' = other[1].maxRead
    /\ issues' = other[1].issues
    /\ pass' = other[1].pass
    /\ issueAt' = other[1].issueAt
    /\ scanned' = other[1].scanned
    /\ wallThickness' = other[1].wallThickness
    /\ wallAt' = other[1].wallAt
    /\ overhangs' = other[1].overhangs
    /\ overAt' = other[1].overAt
    /\ completedIn' = other[1].completedIn
    /\ report' = other[1].report
    /\ error' = other[1].error
    /\ other' = <<ThisCall>>
    /\ UNCHANGED <<build, now, insights, tables, server, client>>

\* a well-formed binary mesh of the records c
Binary(c) ==
    [byteLength |-> ExpectedSize(Len(c)), header |-> "binar",
     count |-> Len(c), cycle |-> c, lines |-> << >>]

\* the inputs of the two calls
PairContents ==
    {Base64(Binary(<<R_thin, R_flatXY>>)),
     Base64(Binary(<<R_floorXZ>>)),
     Base64(Binary(<<R_thin>>)),
     Base64([byteLength |-> 6 + 14 * Len(ThinText), header |-> "solid",
             count |-> 0, cycle |-> << >>, lines |-> ThinText])}

PairProcess == {"cnc_machining", "sheet_metal"}

\* a call that has not started, as the value of `other`
IdleCall(content, p) ==
    [pc |-> "idle", fileContent |-> content, process |-> p, data |-> << >>,
     startTime |-> 0, i |-> 0, triangles |-> EmptyArray,
     normals |-> EmptyArray, parsed |-> FALSE, maxRead |-> 0,
     issues |-> << >>, pass |-> TRUE, issueAt |-> << >>, scanned |-> -1,
     wallThickness |-> << >>, wallAt |-> << >>, overhangs |-> << >>,
     overAt |-> << >>, completedIn |-> << >>, report |-> << >>,
     error |-> "none"]

InitPair ==
    /\ build \in Builds
    /\ process \in PairProcess
    /\ fileContent \in PairContents
    /\ now = 0
    /\ Idle
    /\ other \in {<<IdleCall(c, p)>> : c \in PairContents, p \in PairProcess}
    /\ insights = << >>
    /\ tables = ModuleTables
    /\ server = NoRequests
    /\ client = NoClient

NextPair ==
    \/ analyzeGeometry
    \/ parseSTL_record
    \/ parseSTL_return
    \/ analyzeWallThickness_chunk
    \/ analyzeWallThickness_return
    \/ analyzeOverhangs_triangle
    \/ analyzeOverhangs_return
    \/ Tick
    \/ Switch

SpecPair == InitPair /\ [][NextPair]_vars

-----------------------------------------------------------------------------
(* server/ai.ts: generateDesignInsights on a report *)

\* a check result with n issues
CheckResult(kind, n) ==
    [issues |-> [k \in 1..n |-> [kind |-> kind, value |-> 30]], pass |-> n = 0]

\* the reports generateDesignInsights is given
Reports ==
    {[wallThickness |-> CheckResult("wall", w),
      overhangs |-> CheckResult("overhang", o),
      holeSize |-> CheckResult("hole", h),
      draftAngles |-> CheckResult("draft", d)] :
        w \in 0..2, o \in 0..2, h \in 0..1, d \in 0..1}

\* the optional designGuidelines argument
DesignGuidelines == {<< >>, <<"min wall 2mm">>}

\* what Math.random() * 0.5 + 0.5 gives, with two decimals
RandomDeviations == {50, 73, 100}

\* the text generateDesignInsights builds, by the parts that vary; r is the
\* value Math.random() gave
InsightsText(rpt, p, guidelines, r) ==
    [wallPass |-> rpt.wallThickness.pass,
     wallCount |-> Len(rpt.wallThickness.issues),
     overPass |-> rpt.overhangs.pass,
     overCount |-> Len(rpt.overhangs.issues),
     holePass |-> rpt.holeSize.pass,
     draftPass |-> rpt.draftAngles.pass,
     critical |-> CeilDiv(Len(rpt.wallThickness.issues) * 7, 10),
     deviation |-> IF Len(rpt.wallThickness.issues) > 0 THEN <<r>> ELSE << >>,
     minimum |-> IF Len(rpt.wallThickness.issues) > 0
                 THEN IF p = "injection_molding" THEN <<250>> ELSE <<120>>
                 ELSE << >>,
     overhangChanges |-> Len(rpt.overhangs.issues) > 0,
     draftChanges |-> ~rpt.draftAngles.pass,
     process |-> p]

\* one call of generateDesignInsights on the report
generateDesignInsights ==
    /\ pc = "done"
    /\ report # << >>
    /\ Len(insights) < MaxInsights
    /\ \E g \in DesignGuidelines, r \in RandomDeviations :
          insights' = Append(insights,
              [report |-> report[1], process |-> process, designGuidelines |-> g,
               text |-> InsightsText(report[1], process, g, r)])
    /\ UNCHANGED <<tables, server, client, build, pc, fileContent, process, data, now, startTime, i,
                   triangles, normals, parsed, maxRead, issues, pass, issueAt,
                   scanned, wallThickness, wallAt, overhangs, overAt,
                   completedIn, report, error, other>>

\* a report is at hand
InitInsights ==
    /\ build = "geometry_1"
    /\ process \in ProcessType
    /\ fileContent = NoContent
    /\ now = 0
    /\ data = << >>
    /\ startTime = 0
    /\ i = 0
    /\ triangles = EmptyArray
    /\ normals = EmptyArray
    /\ parsed = TRUE
    /\ maxRead = 0
    /\ issues = << >>
    /\ pass = TRUE
    /\ issueAt = << >>
    /\ scanned = -1
    /\ wallAt = << >>
    /\ overAt = << >>
    /\ completedIn = << >>
    /\ error = "none"
    /\ other = << >>
    /\ insights = << >>
    /\ tables = ModuleTables
    /\ server = NoRequests
    /\ client = NoClient
    /\ pc = "done"
    /\ \E rpt \in Reports :
          /\ report = <<rpt>>
          /\ wallThickness = <<rpt.wallThickness>>
          /\ overhangs = <<rpt.overhangs>>

NextInsights == generateDesignInsights

SpecInsights == InitInsights /\ [][NextInsights]_vars

-----------------------------------------------------------------------------
(* server/routes.ts and the DatabaseStorage of server/storage.ts.  The      *)
(* analyses table is the sequence of its rows in insertion order; the       *)
(* serial primary key of row k is k.  The database answers every query.     *)

\* request bodies of POST /api/analyze: two that insertAnalysisSchema
\* accepts, one it rejects (no report)
Bodies ==
    {[fileName |-> "a.stl", fileContent |-> "QQ==", process |-> "3d_printing",
      report |-> "report a", designGuidelines |-> "null"],
     [fileName |-> "b.stl", fileContent |-> "Qg==", process |-> "sheet_metal",
      report |-> "report b", designGuidelines |-> "min wall 2mm"],
     [fileName |-> "c.stl"]}

\* insertAnalysisSchema.parse succeeds
ValidBody(body) ==
    {"fileName", "fileContent", "process", "report"} \subseteq DOMAIN body

\* the :id parameter of GET /api/analysis/:id
IdParams == {"1", "2", "3", "2abc", "abc"}

\* parseInt(req.params.id)
parseInt(param) ==
    CASE param = "1" -> 1
      [] param = "2" -> 2
      [] param = "3" -> 3
      [] param = "2abc" -> 2
      [] OTHER -> NaN

\* db.insert(analyses).values(insertAnalysis).returning(): the new row
InsertedRow(table, body) ==
    [id |-> Len(table) + 1,
     fileName |-> body.fileName,
     fileContent |-> body.fileContent,
     process |-> body.process,
     report |-> body.report,
     designGuidelines |-> body.designGuidelines]

\* SelectById returning the first row of the table
SelectById_first(table, id) == IF table = << >> THEN << >> ELSE <<table[1]>>

\* db.select().from(analyses).where(eq(analyses.id, id)): the rows found
SelectById(table, id) == SelectSeq(table, LAMBDA row : row.id = id)

\* the request is answered
Answered(method, arg, status, body) ==
    Append(server.log,
           [method |-> method, arg |-> arg, status |-> status, body |-> body])

\* POST /api/analyze
postAnalyze ==
    /\ Len(server.log) < MaxRequests
    /\ \E body \in Bodies :
          IF ~ValidBody(body)
          THEN server' = [server EXCEPT
                  !.log = Answered("POST", body, 400, [error |-> "ZodError"])]
          ELSE LET row == InsertedRow(server.analyses, body)
               IN server' = [analyses |-> Append(server.analyses, row),
                             log |-> Answered("POST", body, 200, row)]
    /\ UNCHANGED <<build, pc, fileContent, process, data, now, startTime, i,
                   triangles, normals, parsed, maxRead, issues, pass, issueAt,
                   scanned, wallThickness, wallAt, overhangs, overAt,
                   completedIn, report, error, other, insights, tables, client>>

\* GET /api/analysis/:id
getAnalysis ==
    /\ Len(server.log) < MaxRequests
    /\ \E param \in IdParams :
          LET id == parseInt(param)
              rows == SelectById(server.analyses, id)
          IN IF id = NaN
             THEN server' = [server EXCEPT
                     !.log = Answered("GET", param, 400, [error |-> "Invalid ID"])]
             ELSE IF rows = << >>
             THEN server' = [server EXCEPT
                     !.log = Answered("GET", param, 404,
                                      [error |-> "Analysis not found"])]
             ELSE server' = [server EXCEPT
                     !.log = Answered("GET", param, 200, rows[1])]
    /\ UNCHANGED <<build, pc, fileContent, process, data, now, startTime, i,
                   triangles, normals, parsed, maxRead, issues, pass, issueAt,
                   scanned, wallThickness, wallAt, overhangs, overAt,
                   completedIn, report, error, other, insights, tables, client>>

\* the server is up, no analysis running
InitStore ==
    /\ build = "geometry_1"
    /\ process = "3d_printing"
    /\ fileContent = NoContent
    /\ now = 0
    /\ Idle
    /\ other = << >>
    /\ insights = << >>
    /\ tables = ModuleTables
    /\ server = NoRequests
    /\ client = NoClient

NextStore ==
    \/ postAnalyze
    \/ getAnalysis

SpecStore == InitStore /\ [][NextStore]_vars

-----------------------------------------------------------------------------
(* The advisory calls: generateDFMSummary of client/src/lib/ai.ts, called   *)
(* by the AISummary card of the report page, and the generateDesignInsights *)
(* that asks the text-generation service.                                   *)

\* what openai.chat.completions.create does: it answers with a text, answers
\* with no content, or rejects (invalid key, quota exceeded, anything else)
ServiceOutcomes == {"content", "empty", "invalid_key", "insufficient_quota", "unavailable"}

\* the message of the error the service rejects with
ServiceError(service) ==
    CASE service = "invalid_key" -> "Incorrect API key provided"
      [] service = "insufficient_quota" -> "insufficient_quota"
      [] OTHER -> "Service unavailable"

\* how a call ends: it returns a string or null, or it throws an Error
Returned(text) == [kind |-> "return", type |-> "string", text |-> text]
ReturnedNull == [kind |-> "return", type |-> "null", text |-> ""]
Thrown(message) == [kind |-> "throw", type |-> "Error", text |-> message]

\* generateDFMSummary(report, process), hasKey: VITE_OPENAI_API_KEY is set
generateDFMSummary(hasKey, service) ==
    IF ~hasKey THEN ReturnedNull
    ELSE IF service = "content" THEN Returned("**insight one **insight two")
    ELSE IF service = "empty" THEN ReturnedNull
    ELSE IF service = "invalid_key"
    THEN Thrown("OpenAI API key is missing or invalid. Please check your configuration.")
    ELSE IF service = "insufficient_quota"
    THEN Thrown("OpenAI API quota exceeded. Please check your API key configuration.")
    ELSE Thrown(ServiceError(service))

\* generateDesignInsights(report, process, designGuidelines) asking the service
generateDesignInsights_service(service) ==
    IF service = "content" THEN Returned("1. Brief Status")
    ELSE IF service = "empty" THEN Returned("Failed to generate insights")
    ELSE Thrown("Failed to generate AI insights")

\* the call is recorded with how it ended
Called(fn, hasKey, service, outcome) ==
    Append(client.calls,
           [fn |-> fn, hasKey |-> hasKey, service |-> service, outcome |-> outcome])

\* AISummary: the effect fetchSummary, run when the card is given a report
fetchSummary ==
    /\ Len(client.calls) < MaxCalls
    /\ \E hasKey \in BOOLEAN, service \in ServiceOutcomes :
          LET aiSummary == generateDFMSummary(hasKey, service)
              shown == IF aiSummary.kind = "return" /\ aiSummary.type = "string"
                       THEN <<aiSummary.text>>
                       ELSE client.summary.insights
              failed == IF aiSummary.kind = "throw"
                        THEN "Failed to generate AI summary"
                        ELSE client.summary.error
          IN client' = [client EXCEPT
                 !.calls = Called("generateDFMSummary", hasKey, service, aiSummary),
                 !.summary = [loading |-> FALSE, error |-> failed,
                              insights |-> shown]]
    /\ UNCHANGED <<build, pc, fileContent, process, data, now, startTime, i,
                   triangles, normals, parsed, maxRead, issues, pass, issueAt,
                   scanned, wallThickness, wallAt, overhangs, overAt,
                   completedIn, report, error, other, insights, tables, server>>

\* a host awaits generateDesignInsights
requestInsights ==
    /\ Len(client.calls) < MaxCalls
    /\ \E service \in ServiceOutcomes :
          client' = [client EXCEPT
              !.calls = Called("generateDesignInsights", TRUE, service,
                               generateDesignInsights_service(service))]
    /\ UNCHANGED <<build, pc, fileContent, process, data, now, startTime, i,
                   triangles, normals, parsed, maxRead, issues, pass, issueAt,
                   scanned, wallThickness, wallAt, overhangs, overAt,
                   completedIn, report, error, other, insights, tables, server>>

\* Report: what the report page renders below the header once the analysis
\* is loaded
ReportPage ==
    (IF client.summary.error # "null" THEN << >> ELSE <<"AISummary">>)
        \o <<"ModelViewer", "DFMReport">>

NextAdvisory ==
    \/ fetchSummary
    \/ requestInsights

\* the report page is open on a stored analysis, nothing asked yet
InitAdvisory == InitStore

SpecAdvisory == InitAdvisory /\ [][NextAdvisory]_vars

-----------------------------------------------------------------------------
(* The enrichment step of analyzeGeometry: both passes have returned and    *)
(* the report is assembled with the material recommendations and, where a   *)
(* designGuidelines text was passed, the validated custom guidelines.       *)

\* the drafts of analyzeGeometry that enrich the report
EnrichBuilds == {"part_021", "part_022"}

\* the designGuidelines argument, line by line; only part_021 takes one
GuidelineTexts(b) ==
    IF b = "part_021" THEN SeqsUpTo(GuidelineLines, MaxRules) ELSE {<< >>}

\* analyzeGeometry from the return of analyzeOverhangs to its own return
enrich ==
    /\ pc = "enrich"
    /\ \E designGuidelines \in GuidelineTexts(build) :
          report' = <<EnrichedReport(build, process, wallThickness[1],
                                     overhangs[1], designGuidelines)>>
    /\ pc' = "done"
    /\ UNCHANGED <<build, fileContent, process, data, now, startTime, i,
                   triangles, normals, parsed, maxRead, issues, pass, issueAt,
                   scanned, wallThickness, wallAt, overhangs, overAt,
                   completedIn, error, other, insights, tables, server, client>>

\* both passes have returned their results
InitEnrich ==
    /\ build \in EnrichBuilds
    /\ process \in ProcessType
    /\ fileContent = NoContent
    /\ now = 0
    /\ data = << >>
    /\ startTime = 0
    /\ i = 0
    /\ triangles = EmptyArray
    /\ normals = EmptyArray
    /\ parsed = TRUE
    /\ maxRead = 0
    /\ issues = << >>
    /\ pass = TRUE
    /\ issueAt = << >>
    /\ scanned = -1
    /\ wallAt = << >>
    /\ overAt = << >>
    /\ completedIn = << >>
    /\ error = "none"
    /\ other = << >>
    /\ insights = << >>
    /\ tables = ModuleTables
    /\ server = NoRequests
    /\ client = NoClient
    /\ pc = "enrich"
    /\ report = << >>
    /\ \E w \in 0..2, o \in 0..2 :
          /\ wallThickness = <<CheckResult("wall", w)>>
          /\ overhangs = <<CheckResult("overhang", o)>>

NextEnrich == enrich

SpecEnrich == InitEnrich /\ [][NextEnrich]_vars

-----------------------------------------------------------------------------
(* The overhang pass alone, on meshes of every density *)

\* triangle counts on both sides of each threshold of the sampling rate
DenseCounts ==
    {1, SAMPLING_RATE + 1, MAX_TRIANGLES, MAX_TRIANGLES + 1,
     SAMPLING_RATE * MAX_TRIANGLES, SAMPLING_RATE * MAX_TRIANGLES + 1,
     MAX_TRIANGLE_COUNT}

\* the drafts whose overhang pass samples with effectiveSamplingRate
SamplingBuilds == {"part_020", "part_021"}

\* a Float32Array holding count records of per floats each
DenseBuffer(count, cycle, per) ==
    [length |-> count * per, filled |-> count * per, cycle |-> Flatten(cycle)]

\* analyzeWallThickness has returned and analyzeOverhangs is about to start
InitDense ==
    /\ build \in SamplingBuilds
    /\ process = "3d_printing"
    /\ fileContent = NoContent
    /\ now = 0
    /\ data = << >>
    /\ startTime = 0
    /\ i = 0
    /\ \E count \in DenseCounts, cycle \in {<<R_point>>, <<R_point, R_wallYZ>>} :
          /\ triangles = DenseBuffer(count, [k \in 1..Len(cycle) |-> cycle[k].v], 9)
          /\ normals = DenseBuffer(count, [k \in 1..Len(cycle) |-> cycle[k].n], 3)
    /\ parsed = TRUE
    /\ maxRead = 0
    /\ issues = << >>
    /\ pass = TRUE
    /\ issueAt = << >>
    /\ scanned = -1
    /\ wallThickness = <<[issues |-> << >>, pass |-> TRUE]>>
    /\ wallAt = << >>
    /\ overhangs = << >>
    /\ overAt = << >>
    /\ completedIn = <<0>>
    /\ report = << >>
    /\ error = "none"
    /\ other = << >>
    /\ insights = << >>
    /\ tables = ModuleTables
    /\ server = NoRequests
    /\ client = NoClient
    /\ pc = "overhang"

NextDense ==
    \/ analyzeOverhangs_triangle
    \/ analyzeOverhangs_return

SpecDense == InitDense /\ [][NextDense]_vars

-----------------------------------------------------------------------------
(* Properties *)

Rep == report[1]

BinaryParsed == parsed /\ ~Solid(Data)
TextParsed == parsed /\ Solid(Data)

\* C1: in every report analyzeGeometry returns, each of the four check
\* results has pass = (issues is empty), for every mesh and process, with
\* the issue cap reached or not.
C1_PassIffNoIssues ==
    report # << >> =>
        /\ Rep.wallThickness.pass = (Rep.wallThickness.issues = << >>)
        /\ Rep.overhangs.pass = (Rep.overhangs.issues = << >>)
        /\ Rep.holeSize.pass = (Rep.holeSize.issues = << >>)
        /\ Rep.draftAngles.pass = (Rep.draftAngles.issues = << >>)

\* a report whose wall-thickness list is at the cap and whose hole-size
\* result carries the static finding
C1_Witness ==
    /\ report # << >>
    /\ Len(Rep.wallThickness.issues) = MAX_ISSUES_PER_CATEGORY
    /\ ~Rep.wallThickness.pass
    /\ Len(Rep.holeSize.issues) = 1

\* C2: analyzeGeometry returns a complete report (parsing and both passes
\* ran to completion, four check results present) or throws; an error
\* raised while parsing or in a pass reaches the caller and no report is
\* returned in that run.
C2_ReportOrThrow ==
    /\ report # << >> =>
          /\ pc = "done" /\ error = "none"
          /\ parsed /\ wallThickness # << >> /\ overhangs # << >>
          /\ {"wallThickness", "overhangs", "holeSize", "draftAngles"}
                \subseteq DOMAIN Rep
          /\ Rep.wallThickness = wallThickness[1]
          /\ Rep.overhangs = overhangs[1]
    /\ error # "none" => pc = "threw" /\ report = << >>
    /\ pc = "threw" => error # "none" /\ report = << >>
    /\ pc = "done" => report # << >>

\* the overhang pass timed out after the wall-thickness pass had returned
C2_Witness ==
    /\ pc = "threw"
    /\ error = "Overhang analysis timeout: Model too complex"
    /\ wallThickness # << >>
    /\ report = << >>

\* C3: for every binary blob parseSTL accepts, the triangle buffer has
\* length 9 x the count declared at offset 80, a multiple of 9.
C3_BinaryLength ==
    BinaryParsed =>
        /\ triangles.length = 9 * Data.count
        /\ triangles.length % 9 = 0

C3_Witness ==
    /\ BinaryParsed
    /\ Data.count = 2
    /\ triangles.length = 18

\* C4: with the exact size validation (geometry.ts, part_021) the binary
\* path returns buffers only when 0 < count <= 5,000,000 and
\* byteLength = 84 + 50 * count; a binary blob of another length is
\* rejected with an error and no buffer is returned.
C4_ExactSize ==
    build # "part_020" =>
        /\ BinaryParsed =>
              /\ 0 < Data.count /\ Data.count <= MAX_TRIANGLE_COUNT
              /\ Data.byteLength = 84 + 50 * Data.count
        /\ (/\ data # << >> /\ ~Solid(Data) /\ pc # "idle"
            /\ Data.byteLength # 84 + 50 * Data.count)
              => pc = "threw" /\ ~parsed /\ error # "none"

\* a blob two bytes longer than its two triangles need, rejected
C4_Witness ==
    /\ build = "geometry_1"
    /\ pc = "threw"
    /\ data # << >> /\ ~Solid(Data)
    /\ Data.count = 2
    /\ Data.byteLength = 84 + 50 * 2 + 2

\* C5 as stated: parseSTL never returns buffers for a blob of fewer than 84
\* bytes.
C5_Original ==
    parsed => Data.byteLength >= 84

\* C5 amended: a blob that is empty, shorter than the 5 sniffed bytes, or
\* not beginning with "solid" and shorter than 84 bytes always fails with an
\* error and no buffer is returned; a blob of fewer than 84 bytes is
\* returned only on the text path.
C5_ShortBinaryRejected ==
    /\ (/\ data # << >> /\ pc # "idle"
        /\ \/ Data.byteLength < 5
           \/ ~Solid(Data) /\ Data.byteLength < 84)
          => pc = "threw" /\ ~parsed /\ error # "none"
    /\ (parsed /\ Data.byteLength < 84) => Solid(Data) /\ Data.byteLength >= 5

\* the 10-byte blob declaring 5 triangles, rejected
C5_Witness ==
    /\ pc = "threw"
    /\ data # << >>
    /\ Data.byteLength = 10 /\ Data.count = 5
    /\ ~parsed

\* C6: the record walk never reads past byteLength, and a walk that would
\* pass the end of the blob fails the parse: no buffers are returned in
\* which some declared triangle was not read from the blob.
C6_EveryDeclaredTriangleRead ==
    BinaryParsed =>
        /\ maxRead <= Data.byteLength
        /\ triangles.filled = triangles.length
        /\ normals.filled = normals.length

\* C7 as stated: for every text input the normal buffer is as long as the
\* triangle buffer.
C7_Original ==
    TextParsed => normals.length = triangles.length

VertexLines == {k \in 1..Len(Data.lines) : IsVertex(Lowered(Data.lines[k]))}
FacetLines == {k \in 1..Len(Data.lines) : IsFacetNormal(Lowered(Data.lines[k]))}
\* the vertex lines that follow some facet normal line
CoveredLines == {k \in VertexLines : \E j \in FacetLines : j < k}
\* the most recent facet normal line before line k
LastFacet(k) == CHOOSE j \in FacetLines : j < k /\ \A h \in FacetLines : h < k => h <= j

\* C7 amended: every vertex line contributes three coordinates; a vertex
\* line that follows a facet normal line contributes one normal triple, the
\* one of the most recent facet normal line, and a vertex line before the
\* first facet normal line contributes none.  So the normal buffer is never
\* longer than the triangle buffer and as long exactly when no vertex line
\* comes before the first facet normal line.
C7_NormalPerCoveredVertex ==
    TextParsed =>
        /\ triangles.length = 3 * Cardinality(VertexLines)
        /\ normals.length = 3 * Cardinality(CoveredLines)
        /\ normals.length <= triangles.length
        /\ (normals.length = triangles.length) = (CoveredLines = VertexLines)
        /\ \A k \in CoveredLines :
              LET r == Cardinality({h \in CoveredLines : h < k})
                  f == Lowered(Data.lines[LastFacet(k)])
              IN \A c \in 0..2 : At(normals, 3 * r + c) = parseFloat(f, 3 + c)

\* one vertex line before the first facet normal line, one after it
C7_Witness ==
    /\ TextParsed
    /\ Data.lines = <<L_vertex, L_FACET, L_VERTEX>>
    /\ triangles.length = 6
    /\ normals.length = 3

\* C8: every triangle buffer parseSTL returns, binary or text, has a length
\* that is a multiple of 9, whatever the number of vertex lines per facet.
C8_MultipleOfNine ==
    parsed => triangles.length % 9 = 0

\* the buffer offsets of the wall-thickness issues found so far
WallOffsets == IF pc = "wall" THEN issueAt ELSE wallAt

\* C9: the wall-thickness pass (three-edge mean, geometry.ts lines 136-182)
\* emits an issue for a triangle only if its mean edge length t satisfies
\* 0.01 < t < the process minimum; a triangle of thickness 0 never produces
\* an issue.
C9_WallIssueRange ==
    build # "geometry_2" =>
        \A k \in 1..Len(WallOffsets) :
            LET t == Coords(triangles, WallOffsets[k])
                sum == EdgeLength(t, 0, 1) + EdgeLength(t, 1, 2) + EdgeLength(t, 2, 0)
            IN /\ ~HasNaN(t)
               /\ sum > 3 * 100
               /\ sum \div 3 < MIN_WALL_THICKNESS(process) * 100
               /\ sum # 0

\* a degenerate triangle passed over, the thin one after it reported
C9_Witness ==
    /\ build = "geometry_1"
    /\ wallThickness # << >>
    /\ Data.cycle = <<R_point, R_thin>>
    /\ wallAt = <<9>>
    /\ Len(wallThickness[1].issues) = 1

\* the buffer offsets of the overhang issues found so far
OverOffsets == IF pc = "overhang" THEN issueAt ELSE overAt

\* C10: the overhang pass (geometry.ts lines 231-275, part_021) emits an
\* issue for a triangle only if its angle to the up axis exceeds 45 degrees
\* and its face area exceeds 0.01; a zero-area triangle never produces one.
C10_OverhangSteepAndLarge ==
    build \in {"geometry_1", "part_021"} =>
        \A k \in 1..Len(OverOffsets) :
            LET t == Coords(triangles, OverOffsets[k])
            IN /\ angle(t) > MAX_OVERHANG_ANGLE * 10
               /\ CrossLength(t) > 200

\* C11 as stated: neither issue list ever has more than 10 entries, and once
\* a pass has collected 10 issues it examines no triangle after the one
\* that gave the 10th.
C11_Original ==
    /\ Len(issues) <= MAX_ISSUES_PER_CATEGORY
    /\ (pc \in {"wall", "overhang"} /\ Len(issueAt) = MAX_ISSUES_PER_CATEGORY)
          => scanned = issueAt[MAX_ISSUES_PER_CATEGORY]

\* the end of the chunk of processGeometryChunk that holds buffer offset k
ChunkEnd(k) ==
    Min((k \div (ANALYSIS_CHUNK_SIZE * 9) + 1) * ANALYSIS_CHUNK_SIZE * 9,
        triangles.length)

\* C11 amended: neither issue list ever has more than 10 entries, in the
\* running pass, in the returned results and in the report; the overhang
\* pass examines no triangle after the one that gave its 10th issue; the
\* wall-thickness pass starts no new chunk of 1000 triangles once it has 10
\* issues, and inside a chunk it stops at the 10th issue of that chunk: it
\* may examine the rest of the chunk in which the 10th issue of the pass was
\* found when earlier chunks gave some of the 10.
C11_CapAndChunkStop ==
    /\ Len(issues) <= MAX_ISSUES_PER_CATEGORY
    /\ wallThickness # << >> =>
          Len(wallThickness[1].issues) <= MAX_ISSUES_PER_CATEGORY
    /\ overhangs # << >> =>
          Len(overhangs[1].issues) <= MAX_ISSUES_PER_CATEGORY
    /\ report # << >> =>
          /\ Len(Rep.wallThickness.issues) <= MAX_ISSUES_PER_CATEGORY
          /\ Len(Rep.overhangs.issues) <= MAX_ISSUES_PER_CATEGORY
    /\ (pc = "overhang" /\ Len(issueAt) = MAX_ISSUES_PER_CATEGORY)
          => scanned = issueAt[MAX_ISSUES_PER_CATEGORY]
    /\ (pc = "wall" /\ Len(issueAt) = MAX_ISSUES_PER_CATEGORY)
          => /\ scanned >= issueAt[MAX_ISSUES_PER_CATEGORY]
             /\ scanned < ChunkEnd(issueAt[MAX_ISSUES_PER_CATEGORY])
             /\ ChunkEnd(issueAt[1]) = ChunkEnd(issueAt[MAX_ISSUES_PER_CATEGORY])
                   => scanned = issueAt[MAX_ISSUES_PER_CATEGORY]

\* the wall-thickness pass holds 10 issues, the 10th found in the second
\* chunk, and has examined triangles after it
C11_Witness ==
    /\ pc = "wall"
    /\ Len(issues) = MAX_ISSUES_PER_CATEGORY
    /\ issueAt[MAX_ISSUES_PER_CATEGORY] > ANALYSIS_CHUNK_SIZE * 9
    /\ scanned > issueAt[MAX_ISSUES_PER_CATEGORY]

\* C12 as stated: no pass that ran longer than its 30000 ms budget returns a
\* result.
C12_Original ==
    \A k \in 1..Len(completedIn) : completedIn[k] <= MAX_PROCESSING_TIME

\* the timeout error of the pass that is running
TimeoutError ==
    IF pc = "wall" THEN "Wall thickness analysis timeout: Model too complex"
    ELSE "Overhang analysis timeout: Model too complex"

\* the running pass is about to start an iteration of its loop
IterationStarts ==
    \/ pc = "wall" /\ i < triangles.length
                   /\ Len(issues) < MAX_ISSUES_PER_CATEGORY
    \/ pc = "overhang" /\ i < OverhangLength(build)
                       /\ Len(issues) < MAX_ISSUES_PER_CATEGORY

\* C12 amended: a pass checks its elapsed time at the start of every
\* iteration of its loop (chunk of the wall-thickness pass, triangle of the
\* overhang pass); when the elapsed time then exceeds 30000 ms the pass
\* examines nothing more, analyzeGeometry fails with the timeout error of
\* that pass and returns no report.  The time is not checked after the last
\* iteration.
C12_TimeoutAtCheck ==
    /\ [][(/\ IterationStarts
            /\ now - startTime > MAX_PROCESSING_TIME
            /\ now' = now)
             => /\ pc' = "threw"
                /\ error' = TimeoutError
                /\ report' = << >>
                /\ UNCHANGED <<issues, scanned, completedIn, wallThickness,
                               overhangs>>]_vars
    /\ [](error \in {"Wall thickness analysis timeout: Model too complex",
                     "Overhang analysis timeout: Model too complex"}
             => /\ report = << >>
                /\ now - startTime > MAX_PROCESSING_TIME)

\* the wall-thickness pass found its budget exceeded before a chunk
C12_Witness ==
    /\ pc = "threw"
    /\ error = "Wall thickness analysis timeout: Model too complex"
    /\ now - startTime > MAX_PROCESSING_TIME
    /\ completedIn = << >>
    /\ report = << >>

\* the other of two calls
Other == other[1]

\* C13: two analyzeGeometry calls on the same file content and the same
\* process that both return a report return the same wallThickness.issues
\* and the same overhangs.issues (same entries, same order), whatever the
\* clock read in each and however their steps were ordered.
C13_SameInputSameIssues ==
    (/\ other # << >>
     /\ Other.fileContent = fileContent /\ Other.process = process
     /\ report # << >> /\ Other.report # << >>)
      => /\ Rep.wallThickness.issues = Other.report[1].wallThickness.issues
         /\ Rep.overhangs.issues = Other.report[1].overhangs.issues

\* two calls on the same input have returned reports with issues; the clock
\* jumped during one of them only
C13_Witness ==
    /\ other # << >>
    /\ Other.fileContent = fileContent /\ Other.process = process
    /\ report # << >> /\ Other.report # << >>
    /\ Rep.wallThickness.issues # << >>
    /\ Rep.overhangs.issues # << >>
    /\ completedIn # Other.completedIn

\* C14: the text generateDesignInsights returns is a function of its
\* arguments (report, process, designGuidelines): two calls with the same
\* arguments return the same text.
C14_SameArgumentsSameText ==
    \A a, b \in 1..Len(insights) :
        (/\ insights[a].report = insights[b].report
         /\ insights[a].process = insights[b].process
         /\ insights[a].designGuidelines = insights[b].designGuidelines)
          => insights[a].text = insights[b].text

\* scenario A: the binary mesh of the one triangle (0,0,0), (0,0,0.3),
\* (0,0.3,0), process cnc_machining, the wall-thickness pass returned
ScenarioA ==
    /\ data # << >>
    /\ Data = Binary(<<R_thin>>)
    /\ process = "cnc_machining"
    /\ wallThickness # << >>

\* C15 as stated: in scenario A the wall-thickness result has pass = false
\* and exactly one issue, which reports 0.3 mm or less.
C15_Original ==
    ScenarioA =>
        /\ ~wallThickness[1].pass
        /\ Len(wallThickness[1].issues) = 1
        /\ wallThickness[1].issues[1].value <= 30

\* C15 amended: in scenario A the wall-thickness result has pass = false
\* and exactly one issue; the thickness it reports is the mean of the three
\* edge lengths 0.3, 0.42 and 0.3, that is 0.34 mm, below the 1.2 mm minimum
\* (the second draft of geometry.ts, which measures the first edge alone,
\* reports 0.30 mm).
C15_ScenarioA ==
    ScenarioA =>
        /\ ~wallThickness[1].pass
        /\ Len(wallThickness[1].issues) = 1
        /\ wallThickness[1].issues[1].value =
              (IF build = "geometry_2" THEN 30 ELSE 34)
        /\ wallThickness[1].issues[1].value < MIN_WALL_THICKNESS(process)

\* scenario A has been analysed to the end by the first draft
C15_Witness ==
    /\ ScenarioA
    /\ build = "geometry_1"
    /\ report # << >>
    /\ Rep.wallThickness.issues = <<[kind |-> "wall", value |-> 34]>>

\* scenario B: the binary mesh of one triangle lying flat in the XY plane
\* (normal (0,0,1)), any process, the overhang pass returned
ScenarioB ==
    /\ data # << >>
    /\ Data.count = 1 /\ Data.cycle = <<R_flatXY>>
    /\ Data.byteLength = ExpectedSize(1) /\ ~Solid(Data)
    /\ overhangs # << >>

\* scenario C: the binary mesh of one triangle with normal (1,0,0) and face
\* area 0.5, the overhang pass returned
ScenarioC ==
    /\ data # << >>
    /\ Data.count = 1 /\ Data.cycle = <<R_wallYZ>>
    /\ Data.byteLength = ExpectedSize(1) /\ ~Solid(Data)
    /\ overhangs # << >>

\* C16: the overhang angle is measured against the up axis of the
\* scenarios: the flat XY triangle of scenario B gives pass = true and no
\* issue (angle 0) for every process; the triangle of scenario C with normal
\* (1,0,0) gives pass = false and exactly one issue reporting 90 degrees.
C16_UpAxisScenarios ==
    /\ ScenarioB =>
          /\ overhangs[1].pass
          /\ overhangs[1].issues = << >>
    /\ ScenarioC =>
          /\ ~overhangs[1].pass
          /\ Len(overhangs[1].issues) = 1
          /\ overhangs[1].issues[1].value = 900

\* C17: the holeSize and draftAngles results depend on the process alone:
\* in every report for injection_molding draftAngles has pass = false and
\* exactly one static issue, and in every report for cnc_machining holeSize
\* has pass = false and exactly one static issue, whatever the mesh.
C17_StaticFindings ==
    report # << >> =>
        /\ process = "injection_molding" =>
              /\ ~Rep.draftAngles.pass
              /\ Rep.draftAngles.issues = <<[kind |-> "draft", value |-> 0]>>
        /\ process = "cnc_machining" =>
              /\ ~Rep.holeSize.pass
              /\ Rep.holeSize.issues = <<[kind |-> "hole", value |-> 0]>>

\* C18: the analyzer never writes to its inputs: no step of
\* analyzeWallThickness or analyzeOverhangs, returning and throwing
\* included, changes an element or the length of the triangle buffer or of
\* the normal buffer.
C18_InputsUntouched ==
    [][(pc = "wall" \/ pc = "overhang")
         => (triangles' = triangles /\ normals' = normals)]_vars

\* both passes have examined a mesh, found issues and returned
C18_Witness ==
    /\ pc = "done"
    /\ triangles.length = 18
    /\ normals.length = 6
    /\ triangles.cycle # normals.cycle
    /\ wallThickness[1].issues # << >>
    /\ overhangs[1].issues # << >>

\* the buffers parseSTL returns for a well-formed blob
ParsedAlone(blob) ==
    IF isAsciiSTL(blob) THEN parseAsciiSTL(blob.lines)
    ELSE [triangles |-> [NewTriangles(blob) EXCEPT !.filled = blob.count * 9],
          normals |-> [NewNormals(blob) EXCEPT !.filled = blob.count * 3]]

\* analyzeWallThickness run from chunk offset k to its return, nothing else
\* running
RECURSIVE WallAlone(_, _, _, _, _)
WallAlone(b, buf, k, p, acc) ==
    IF ~(k < buf.length /\ Len(acc.issues) < MAX_ISSUES_PER_CATEGORY) THEN acc
    ELSE LET chunk == processGeometryChunk(b, buf, k, ANALYSIS_CHUNK_SIZE, p)
         IN WallAlone(b, buf, k + ANALYSIS_CHUNK_SIZE * 9, p,
                [issues |-> acc.issues \o
                      Slice(chunk.issues, MAX_ISSUES_PER_CATEGORY - Len(acc.issues)),
                 pass |-> acc.pass /\ chunk.pass])

\* analyzeOverhangs run from offset k to its return, nothing else running
RECURSIVE OverAlone(_, _, _, _, _)
OverAlone(b, tris, norms, k, acc) ==
    LET len == IF b = "geometry_2" THEN norms.length ELSE tris.length
        step == CASE b = "geometry_1" -> 9
                  [] b = "geometry_2" ->
                        Max(1, norms.length \div ANALYSIS_CHUNK_SIZE) * 3
                  [] OTHER ->
                        9 * Max(SAMPLING_RATE,
                                CeilDiv(tris.length \div 9, MAX_TRIANGLES))
        hit == IF b = "geometry_2" THEN NormalOverhanging(norms, k)
               ELSE Overhanging(b, Coords(tris, k))
        a == IF b = "geometry_2" THEN normalAngle(norms, k)
             ELSE angle(Coords(tris, k))
    IN IF ~(k < len /\ Len(acc.issues) < MAX_ISSUES_PER_CATEGORY) THEN acc
       ELSE OverAlone(b, tris, norms, k + step,
                IF hit THEN [issues |-> Append(acc.issues, OverhangIssue(a)),
                             pass |-> FALSE]
                ELSE acc)

\* the report of analyzeGeometry(content, p) executed alone, from start to
\* return with no other call in between
AloneReport(b, content, p) ==
    LET m == ParsedAlone(atob(content))
        none == [issues |-> << >>, pass |-> TRUE]
        wall == WallAlone(b, m.triangles, 0, p, none)
        over == OverAlone(b, m.triangles, m.normals, 0, none)
    IN IF b = "part_021"
       THEN EnrichedReport(b, p, wall, over, << >>)
       ELSE [wallThickness |-> wall,
             overhangs |-> over,
             holeSize |-> holeSize(b, p),
             draftAngles |-> draftAngles(b, p)]

\* C19: two analyzeGeometry calls whose steps are interleaved in any order
\* share no mutable state: a call that returns a report returns the report
\* it returns when executed alone, and the module-level tables (minimum
\* wall thickness, materials) keep their contents.
C19_IndependentCalls ==
    /\ tables = ModuleTables
    /\ report # << >> => Rep = AloneReport(build, fileContent, process)
    /\ (other # << >> /\ Other.report # << >>)
          => Other.report[1] = AloneReport(build, Other.fileContent, Other.process)

\* two calls on different inputs have both returned; both were in their
\* overhang pass, begun at time 0, when the clock jumped
C19_Witness ==
    /\ other # << >>
    /\ report # << >> /\ Other.report # << >>
    /\ fileContent # Other.fileContent
    /\ process # Other.process
    /\ Rep # Other.report[1]
    /\ Len(completedIn) = 2 /\ completedIn[2] > 0
    /\ Len(Other.completedIn) = 2 /\ Other.completedIn[2] > 0

\* the requests answered so far
Log == server.log

\* the successful POSTs answered before request k
StoredBefore(k) ==
    {j \in 1..(k - 1) : Log[j].method = "POST" /\ Log[j].status = 200}

C21_AdvisoryNeverThrows ==
    /\ \A k \in 1..Len(client.calls) :
          /\ client.calls[k].outcome.kind = "return"
          /\ client.calls[k].outcome.type = "string"
          /\ client.calls[k].outcome.text # ""
    /\ \E k \in 1..Len(ReportPage) : ReportPage[k] = "DFMReport"

\* C22: for every process and every combination of wall-thickness issues
\* present and overhang issues present, generateMaterialRecommendations
\* returns recommended and notRecommended lists that are disjoint and both
\* within the process's material table, with a non-empty reasoning.
C22_MaterialSplit ==
    (pc = "done" /\ report # << >>) =>
        LET m == Rep.materialRecommendations
        IN /\ Range(m.recommended) \cap Range(m.notRecommended) = {}
           /\ Range(m.recommended) \subseteq Range(PROCESS_MATERIALS(process))
           /\ Range(m.notRecommended) \subseteq Range(PROCESS_MATERIALS(process))
           /\ m.reasoning # ""

\* the validations of the report's customGuidelines block
Validations ==
    IF report = << >> \/ Rep.customGuidelines = << >> THEN << >>
    ELSE Rep.customGuidelines[1].validations

\* the keywords a rule contains
HasThickness(rule) == includes(toLowerCaseRule(rule), "thickness")
HasOverhang(rule) ==
    includes(toLowerCaseRule(rule), "overhang")
        \/ includes(toLowerCaseRule(rule), "support")

\* a failed line carries a detail string, a passed line none
DetailIffFailed(v) == (v.details # << >>) <=> ~v.pass

\* C23 as stated: a line containing "thickness" gets the wall-thickness
\* pass, a line containing "overhang" or "support" gets the overhang pass,
\* any other line passes with no detail; a detail exactly on failed lines.
C23_Original ==
    \A k \in 1..Len(Validations) :
        LET v == Validations[k]
        IN /\ HasThickness(v.rule) => v.pass = wallThickness[1].pass
           /\ HasOverhang(v.rule) => v.pass = overhangs[1].pass
           /\ (~HasThickness(v.rule) /\ ~HasOverhang(v.rule)) =>
                  (v.pass /\ v.details = << >>)
           /\ DetailIffFailed(v)

\* C23: a line containing "overhang" or "support" gets the overhang pass; a
\* line containing "thickness" and neither of those gets the wall-thickness
\* pass; any other line passes with no detail; a failed line carries a
\* detail string (of the pass that decided it) and a passed line none.
C23_KeywordClasses ==
    \A k \in 1..Len(Validations) :
        LET v == Validations[k]
        IN /\ HasOverhang(v.rule) =>
                  /\ v.pass = overhangs[1].pass
                  /\ ~v.pass => v.details =
                         Details("overhang", Len(overhangs[1].issues))
           /\ (HasThickness(v.rule) /\ ~HasOverhang(v.rule)) =>
                  /\ v.pass = wallThickness[1].pass
                  /\ ~v.pass => v.details =
                         Details("wall thickness", Len(wallThickness[1].issues))
           /\ (~HasThickness(v.rule) /\ ~HasOverhang(v.rule)) =>
                  (v.pass /\ v.details = << >>)
           /\ DetailIffFailed(v)

\* a two-line text was validated against a failed wall-thickness pass and
\* a passed overhang pass: the line with both keywords passes, the
\* thickness line fails with its detail
C23_Witness ==
    /\ pc = "done"
    /\ ~wallThickness[1].pass /\ overhangs[1].pass
    /\ Len(Validations) = 2
    /\ Validations[1].rule = G_both /\ Validations[1].pass
    /\ Validations[2].rule = G_wall /\ ~Validations[2].pass
    /\ Validations[2].details # << >>

\* the offsets lo, lo + 9, ... below hi whose triangle qualifies as a thin
\* wall, in buffer order (the first half of the range, then the second)
RECURSIVE QualifyingOffsets(_, _, _, _, _)
QualifyingOffsets(b, buf, lo, hi, p) ==
    IF ~(lo < hi) THEN << >>
    ELSE IF lo + 9 >= hi
    THEN IF ThinWall(b, Measured(b, Coords(buf, lo)), p) THEN <<lo>> ELSE << >>
    ELSE LET mid == lo + (((hi - lo + 8) \div 9) \div 2) * 9
             first == QualifyingOffsets(b, buf, lo, mid, p)
         IN IF Len(first) >= MAX_ISSUES_PER_CATEGORY THEN first
            ELSE first \o QualifyingOffsets(b, buf, mid, hi, p)

\* one sequential scan of the whole buffer, cut at the cap
SequentialScan(b, buf, p) ==
    LET all == QualifyingOffsets(b, buf, 0, buf.length, p)
    IN SubSeq(all, 1, Min(Len(all), MAX_ISSUES_PER_CATEGORY))

\* analyzeWallThickness has just returned
WallReturned == pc = "overhang" /\ i = 0 /\ scanned = -1 /\ wallThickness # << >>

\* C24: the chunked wall-thickness pass returns exactly the issues of the
\* first min(10, k) qualifying triangles in buffer order, k being the number
\* of qualifying triangles of the mesh: the list of one unchunked sequential
\* scan cut at 10, wherever the chunk boundaries fall.
C24_ChunkedEqualsSequential ==
    WallReturned =>
        LET first == SequentialScan(build, triangles, process)
        IN /\ wallAt = first
           /\ wallThickness[1].issues =
                 [k \in 1..Len(first) |->
                     WallIssue(Measured(build, Coords(triangles, first[k])))]

\* the pass returned 10 issues of a mesh with 11 qualifying triangles, nine
\* from the first chunk and the 10th from the second
C24_Witness ==
    /\ WallReturned
    /\ Len(wallAt) = MAX_ISSUES_PER_CATEGORY
    /\ wallAt[MAX_ISSUES_PER_CATEGORY - 1] < ANALYSIS_CHUNK_SIZE * 9
    /\ wallAt[MAX_ISSUES_PER_CATEGORY] = 1008 * 9
    /\ ThinWall(build, Measured(build, Coords(triangles, 1120 * 9)), process)

-----------------------------------------------------------------------------
(* The sampling of the overhang pass *)

\* totalTriangles = triangles.length / 9
TotalTriangles == triangles.length \div 9

\* the number of triangles the overhang loop has evaluated so far
Evaluated ==
    IF scanned < 0 THEN 0 ELSE scanned \div OverhangStep(build) + 1

\* C25: on a mesh of N <= MAX_TRIANGLE_COUNT triangles the overhang pass
\* advances by max(SAMPLING_RATE, ceil(N / MAX_TRIANGLES)) triangles per
\* iteration and therefore evaluates at most MAX_TRIANGLES triangles.
C25_AtMostCeiling ==
    (pc \in {"overhang", "done"} /\ TotalTriangles <= MAX_TRIANGLE_COUNT) =>
        /\ OverhangStep(build) =
              9 * Max(SAMPLING_RATE, CeilDiv(TotalTriangles, MAX_TRIANGLES))
        /\ Evaluated <= MAX_TRIANGLES

\* the pass has returned from the largest mesh after exactly MAX_TRIANGLES
\* evaluations
C25_Witness ==
    /\ pc = "done"
    /\ build = "part_021"
    /\ TotalTriangles = MAX_TRIANGLE_COUNT
    /\ Evaluated = MAX_TRIANGLES

\* C26 as stated: a mesh of at most MAX_TRIANGLES triangles is scanned
\* triangle by triangle; only a denser mesh is sub-sampled, at a stride of
\* at least SAMPLING_RATE triangles.
C26_Original ==
    (pc = "overhang" /\ scanned >= 0) =>
        IF TotalTriangles <= MAX_TRIANGLES
        THEN i = scanned + 9
        ELSE i >= scanned + 9 * SAMPLING_RATE

\* C26: every mesh is sub-sampled: a mesh of at most MAX_TRIANGLES
\* triangles at a stride of exactly SAMPLING_RATE triangles, a denser mesh
\* at a stride of at least SAMPLING_RATE triangles.
C26_EveryMeshSampled ==
    (pc = "overhang" /\ scanned >= 0) =>
        IF TotalTriangles <= MAX_TRIANGLES
        THEN i = scanned + 9 * SAMPLING_RATE
        ELSE i >= scanned + 9 * SAMPLING_RATE

\* the pass on a mesh of SAMPLING_RATE + 1 triangles has evaluated triangle
\* 0 and then triangle SAMPLING_RATE, leaving the ones between unexamined
C26_Witness ==
    /\ pc = "overhang"
    /\ build = "part_021"
    /\ TotalTriangles = SAMPLING_RATE + 1
    /\ scanned = 9 * SAMPLING_RATE

-----------------------------------------------------------------------------
(* The format sniff *)

\* parseSTL handed the blob to parseAsciiSTL and returned what it built
TextPath ==
    /\ parsed
    /\ triangles = parseAsciiSTL(Data.lines).triangles
    /\ normals = parseAsciiSTL(Data.lines).normals

\* parseSTL went on to the checks of the binary format: it failed one of
\* them, or allocated the buffers the triangle count asks for
BinaryPath ==
    \/ error = "Invalid STL file: Too small for binary format"
    \/ error = "Invalid binary STL file"
    \/ /\ Data.count > 0
       /\ triangles.length = NewTriangles(Data).length
       /\ normals.length = NewNormals(Data).length

\* C27 as stated: every non-empty blob takes the text path exactly when
\* its first 5 bytes equal "solid" ignoring case, and the binary path
\* otherwise.
C27_Original ==
    (pc # "idle" /\ data # << >> /\ Data.byteLength > 0) =>
        IF Solid(Data)
        THEN TextPath /\ ~BinaryPath
        ELSE BinaryPath /\ ~TextPath

\* C27: a blob of at least 5 bytes takes the text path exactly when its
\* first 5 bytes equal "solid" ignoring case and the binary path otherwise;
\* the text path returns its buffers whatever the triangle count and byte
\* length of the blob are.  A non-empty blob of fewer than 5 bytes takes
\* neither path: the sniff itself fails.
C27_SniffDecidesPath ==
    (pc # "idle" /\ data # << >> /\ Data.byteLength > 0) =>
        IF Data.byteLength < 5
        THEN error = "RangeError" /\ ~TextPath /\ ~BinaryPath
        ELSE IF Solid(Data)
        THEN TextPath /\ ~BinaryPath
        ELSE BinaryPath /\ ~TextPath

\* a binary mesh of one triangle whose header begins with "SOLID" has been
\* parsed as text and analysed to the end without an error
C27_Witness ==
    /\ pc = "done"
    /\ Data.header = "SOLID"
    /\ Data.count = 1
    /\ Data.byteLength = ExpectedSize(1)
    /\ TextPath
    /\ triangles.length = 0
    /\ error = "none"

-----------------------------------------------------------------------------
(* The two encodings of one mesh *)

\* both calls have returned a report, for the same process and from the
\* same triangles
SameMeshAnalysed ==
    /\ report # << >>
    /\ other # << >>
    /\ Other.report # << >>
    /\ process = Other.process
    /\ triangles = Other.triangles

\* C28: the overhang pass evaluates each triangle at most once, whichever
\* path produced the normal buffer, so it reports at most one issue per
\* triangle and two calls on the same mesh, one loaded from its binary and
\* one from its text encoding, return the same overhang result.
C28_SameOverhangsFromEitherEncoding ==
    /\ report # << >> =>
          Len(Rep.overhangs.issues) <= triangles.length \div 9
    /\ SameMeshAnalysed => Rep.overhangs = Other.report[1].overhangs

-----------------------------------------------------------------------------
(* The home page: FileUpload, handleFileSelected, handleAnalyze and the     *)
(* analyze mutation.  client.home holds the state of the Home component;    *)
(* every `await` ends a step, and what follows it is a step of its own.     *)

\* the maxSize prop of FileUpload, and the size test of handleFileSelected
MAX_FILE_SIZE == 50 * 1024 * 1024

validExtensions == {".stl", ".step", ".stp"}

\* file.name.toLowerCase().slice(file.name.lastIndexOf('.'))
extension(name) ==
    CASE name = "part.stl" -> ".stl"
      [] name = "PART.STL" -> ".stl"
      [] name = "tiny.stl" -> ".stl"
      [] name = "huge.stl" -> ".stl"
      [] name = "part.step" -> ".step"
      [] name = "notes.txt" -> ".txt"
      [] OTHER -> name

\* a File: its name, its size, the bytes file.arrayBuffer() resolves to
File(name, blob) == [name |-> name, size |-> blob.byteLength, blob |-> blob]

\* two meshes, a text note, a 10-byte file, a file over 50 MB, a STEP file
Files ==
    {File("part.stl", Binary(<<R_thin>>)),
     File("PART.STL",
          [byteLength |-> 6 + 14 * Len(ThinText), header |-> "Solid",
           count |-> 0, cycle |-> << >>, lines |-> ThinText]),
     File("notes.txt", Binary(<<R_thin>>)),
     File("tiny.stl",
          [byteLength |-> 10, header |-> "binar", count |-> 5,
           cycle |-> << >>, lines |-> << >>]),
     File("huge.stl",
          [byteLength |-> MAX_FILE_SIZE + 1, header |-> "binar", count |-> 1,
           cycle |-> <<R_thin>>, lines |-> << >>]),
     File("part.step",
          [byteLength |-> 200, header |-> "ISO-1",
           count |-> MAX_TRIANGLE_COUNT + 1, cycle |-> << >>, lines |-> << >>])}

\* the processes picked in ProcessSelect
HomeProcesses == {"3d_printing", "cnc_machining"}

Home == client.home
Mutation == client.home.mutation

\* toast({title, ...})
toast(h, title) == [h EXCEPT !.toasts = Append(@, title)]

\* handleFileSelected up to its first await; an async function, it returns
\* a Promise to its caller whatever it goes on to do
handleFileSelected(h, file) ==
    IF extension(file.name) \in validExtensions
    THEN IF file.size > MAX_FILE_SIZE
         THEN [home |-> toast(h, "File too large"), returned |-> "Promise"]
         ELSE [home |-> [h EXCEPT !.reads = Append(@, file)],
               returned |-> "Promise"]
    ELSE [home |-> toast(h, "Invalid file type"), returned |-> "Promise"]

\* JavaScript's ToBoolean on what a call returned
Truthy(value) == value \notin {"false", "undefined", "null"}

\* FileUpload.handleFile, called on a drop or a change of the input
handleFile ==
    /\ Home.location.path = "/"
    /\ Home.uploads < MaxUploads
    /\ \E file \in Files :
          LET counted == [Home EXCEPT !.uploads = @ + 1]
              called == handleFileSelected(counted, file)
          IN IF file.size <= MAX_FILE_SIZE
             THEN IF Truthy(called.returned)
                  THEN client' = [client EXCEPT !.home =
                          [called.home EXCEPT !.selectedFile = <<file>>]]
                  ELSE client' = [client EXCEPT !.home = called.home]
             ELSE client' = [client EXCEPT !.home = counted]
    /\ UNCHANGED <<build, pc, fileContent, process, data, now, startTime, i,
                   triangles, normals, parsed, maxRead, issues, pass, issueAt,
                   scanned, wallThickness, wallAt, overhangs, overAt,
                   completedIn, report, error, other, insights, tables, server>>

\* the sequence without its k-th element
Without(seq, k) == SubSeq(seq, 1, k - 1) \o SubSeq(seq, k + 1, Len(seq))

\* handleFileSelected after `await file.arrayBuffer()`
handleFileSelected_loaded ==
    /\ \E k \in 1..Len(Home.reads) :
          LET file == Home.reads[k]
              h == [Home EXCEPT !.reads = Without(@, k)]
          IN IF file.blob.byteLength < HEADER_BYTES
             THEN client' = [client EXCEPT !.home = toast(h, "Invalid file")]
             ELSE client' = [client EXCEPT !.home =
                     toast([h EXCEPT !.selectedFile = <<file>>,
                                     !.fileContent = <<Base64(file.blob)>>,
                                     !.analysisReport = << >>],
                           "File uploaded successfully")]
    /\ UNCHANGED <<build, pc, fileContent, process, data, now, startTime, i,
                   triangles, normals, parsed, maxRead, issues, pass, issueAt,
                   scanned, wallThickness, wallAt, overhangs, overAt,
                   completedIn, report, error, other, insights, tables, server>>

\* the errors analyzeGeometry(content, p) can throw: the error of a blob
\* the loader refuses, a timeout when the clock runs out on another
analyzeGeometry_throws(b, content) ==
    LET blob == atob(content)
    IN IF blob.byteLength = 0
       THEN {Thrown("No file content provided for analysis")}
       ELSE IF blob.byteLength < 5
       THEN {Thrown("RangeError")}
       ELSE IF ~isAsciiSTL(blob) /\ blob.byteLength < HEADER_BYTES
       THEN {Thrown("Invalid STL file: Too small for binary format")}
       ELSE IF ~isAsciiSTL(blob) /\ ~SizeAccepted(b, blob.count, blob.byteLength)
       THEN {Thrown("Invalid binary STL file")}
       ELSE {Thrown("Overhang analysis timeout: Model too complex")}

\* the reports analyzeGeometry(content, p) can return: none for a blob the
\* loader refuses, the report of the mesh for another
analyzeGeometry_returns(b, content, p) ==
    IF Thrown("Overhang analysis timeout: Model too complex")
          \in analyzeGeometry_throws(b, content)
    THEN {AloneReport(b, content, p)}
    ELSE {}

\* the catch of mutationFn: error.name === 'AbortError' ||
\* error.message?.includes('timeout')
Rethrown(e) ==
    IF e.text \in {"Overhang analysis timeout: Model too complex"}
    THEN Thrown("Analysis timed out. The model might be too complex, try simplifying it first.")
    ELSE e

\* finally leaving the analyzing flag as it is
finally_skipped(h) == h

\* the finally of mutationFn: clearTimeout(timeoutId); setAnalyzing(false)
finally(h) == [h EXCEPT !.analyzing = FALSE]

\* mutationFn threw: the mutation is in error and onError shows the toast
onError(h, e) ==
    toast([h EXCEPT !.mutation.status = "error", !.mutation.pc = "none",
                    !.mutation.error = e.text],
          "Analysis Failed")

\* mutationFn returned data: the mutation succeeded and onSuccess navigates
onSuccess(h, row) ==
    [h EXCEPT !.mutation.status = "success", !.mutation.pc = "none",
              !.mutation.data = <<row>>,
              !.location = [path |-> "/report", id |-> row.id]]

\* the Analyze button of ProcessSelect, enabled while a file is selected and
\* nothing is loading: handleAnalyze, mutate, and mutationFn up to
\* `await file.arrayBuffer()`
handleAnalyze ==
    /\ Home.location.path = "/"
    /\ ~(Home.selectedFile = << >> \/ Mutation.status = "pending" \/ Home.analyzing)
    /\ Mutation.runs < MaxAnalyses
    /\ \E p \in HomeProcesses :
          client' = [client EXCEPT !.home =
              [Home EXCEPT !.analyzing = TRUE,
                           !.mutation = [status |-> "pending", pc |-> "reading",
                                         runs |-> Mutation.runs + 1,
                                         file |-> Home.selectedFile,
                                         process |-> p, report |-> << >>,
                                         request |-> << >>, data |-> << >>,
                                         error |-> "none"]]]
    /\ UNCHANGED <<build, pc, fileContent, process, data, now, startTime, i,
                   triangles, normals, parsed, maxRead, issues, pass, issueAt,
                   scanned, wallThickness, wallAt, overhangs, overAt,
                   completedIn, report, error, other, insights, tables, server>>

\* mutationFn from the resolved arrayBuffer to `await apiRequest(...)`, or to
\* its end when analyzeGeometry throws
mutationFn_analyze ==
    /\ Mutation.pc = "reading"
    /\ LET file == Mutation.file[1]
           base64 == Base64(file.blob)
           h == [Home EXCEPT !.fileContent = <<base64>>]
       IN \/ \E thrown \in analyzeGeometry_throws(build, base64) :
                client' = [client EXCEPT !.home =
                    onError(finally(h), Rethrown(thrown))]
          \/ \E rpt \in analyzeGeometry_returns(build, base64, Mutation.process) :
                client' = [client EXCEPT !.home =
                    [h EXCEPT !.analysisReport = <<rpt>>,
                              !.mutation.report = <<rpt>>,
                              !.mutation.request =
                                  <<[fileName |-> file.name,
                                     fileContent |-> base64,
                                     process |-> Mutation.process,
                                     report |-> rpt]>>,
                              !.mutation.pc = "posting"]]
    /\ UNCHANGED <<build, pc, fileContent, process, data, now, startTime, i,
                   triangles, normals, parsed, maxRead, issues, pass, issueAt,
                   scanned, wallThickness, wallAt, overhangs, overAt,
                   completedIn, report, error, other, insights, tables, server>>

\* apiRequest("POST", "/api/analyze", body): the request is answered with
\* the stored row, or the call rejects (no answer, or an answer that is
\* not ok)
apiRequest(table, body) ==
    IF ValidBody(body)
    THEN {[kind |-> "resolve",
           row |-> InsertedRow(table, body @@ [designGuidelines |-> "null"])],
          Thrown("Failed to fetch")}
    ELSE {Thrown("400: ZodError")}

\* mutationFn after `await apiRequest(...)`: response.json(), finally, and
\* the onSuccess or onError of the mutation
mutationFn_response ==
    /\ Mutation.pc = "posting"
    /\ \E answer \in apiRequest(server.analyses, Mutation.request[1]) :
          IF answer.kind = "throw"
          THEN /\ client' = [client EXCEPT !.home =
                      onError(finally(Home), Rethrown(answer))]
               /\ UNCHANGED server
          ELSE /\ client' = [client EXCEPT !.home =
                      onSuccess(finally(Home), answer.row)]
               /\ server' = [analyses |-> Append(server.analyses, answer.row),
                             log |-> Answered("POST", Mutation.request[1], 200,
                                              answer.row)]
    /\ UNCHANGED <<build, pc, fileContent, process, data, now, startTime, i,
                   triangles, normals, parsed, maxRead, issues, pass, issueAt,
                   scanned, wallThickness, wallAt, overhangs, overAt,
                   completedIn, report, error, other, insights, tables>>

\* the drafts of the analyzer the page is run with
HomeBuilds == {"geometry_1", "part_021"}

\* the home page is open, no file chosen
InitHome ==
    /\ build \in HomeBuilds
    /\ process = "3d_printing"
    /\ fileContent = NoContent
    /\ now = 0
    /\ Idle
    /\ other = << >>
    /\ insights = << >>
    /\ tables = ModuleTables
    /\ server = NoRequests
    /\ client = NoClient

NextHome ==
    \/ handleFile
    \/ handleFileSelected_loaded
    \/ handleAnalyze
    \/ mutationFn_analyze
    \/ mutationFn_response

SpecHome == InitHome /\ [][NextHome]_vars

\* the page with every awaited promise settling in the end
SpecHomeFair ==
    /\ SpecHome
    /\ WF_vars(mutationFn_analyze)
    /\ WF_vars(mutationFn_response)

-----------------------------------------------------------------------------
(* The upload flow *)

\* handleFileSelected resolves to true for the file
Accepted(file) ==
    /\ extension(file.name) \in validExtensions
    /\ ~(file.size > MAX_FILE_SIZE)
    /\ ~(file.blob.byteLength < HEADER_BYTES)

\* C29: a file the validation callback rejects (wrong extension, over
\* 50 MB, fewer than 84 bytes) never becomes the selected file and is never
\* passed to the analyze mutation.
C29_RejectedNeverSelected ==
    /\ Home.selectedFile # << >> => Accepted(Home.selectedFile[1])
    /\ Mutation.file # << >> => Accepted(Mutation.file[1])

-----------------------------------------------------------------------------
(* The analyze mutation *)

\* runs of the mutation that have ended in an error
FailedRuns ==
    Mutation.runs - (IF Mutation.status \in {"pending", "success"} THEN 1 ELSE 0)

\* "Analysis Failed" toasts shown so far
FailureToasts ==
    Cardinality({k \in 1..Len(Home.toasts) : Home.toasts[k] = "Analysis Failed"})

\* the order of the steps of the mutation, and what a failure leaves
MutationOrdered ==
    /\ Mutation.request # << >> =>
          /\ Mutation.report # << >>
          /\ Mutation.request[1].report = Mutation.report[1]
          /\ Mutation.report[1] \in
                analyzeGeometry_returns(build, Base64(Mutation.file[1].blob),
                                        Mutation.process)
    /\ Home.location.path = "/report" =>
          /\ Mutation.status = "success"
          /\ Mutation.request # << >>
          /\ Mutation.data # << >>
          /\ Home.location.id = Mutation.data[1].id
          /\ Home.location.id \in 1..Len(server.analyses)
          /\ server.analyses[Home.location.id] = Mutation.data[1]
          /\ Mutation.data[1].report = Mutation.report[1]
    /\ Mutation.status = "error" => Home.location.path = "/"
    /\ FailureToasts = FailedRuns
    /\ Mutation.status # "pending" => ~Home.analyzing

\* C30: the report is POSTed only after analyzeGeometry returned it, the
\* page navigates to /report/<id> only after the POST succeeded; when the
\* analysis or the POST fails there is no navigation and an error toast is
\* shown; and the analyzing flag, once set, is reset to false in the end.
C30_OrderedAndReset ==
    /\ []MutationOrdered
    /\ (Home.analyzing ~> ~Home.analyzing)

\* a first run failed with its toast, a second run was stored and the page
\* went to its report, the flag back to false
C30_Witness ==
    /\ Home.location.path = "/report"
    /\ Mutation.runs = 2
    /\ FailureToasts = 1
    /\ ~Home.analyzing

=============================================================================
